---- MODULE Spec2Model ----
(***************************************************************************)
(* Budget period resolution, budget status and spending forecast of the   *)
(* money tracker (app/services/budget_service.py, prediction_service.py,  *)
(* transaction_service.py), as a state machine over the stored budgets,   *)
(* transactions and account balances and the current time.                *)
(*                                                                         *)
(* Amounts are Decimal values with two places, held as integer cents.     *)
(* A datetime is a record [year, month, day, tod]; tod counts the slots   *)
(* of a day (SlotsPerDay of them), so that two instants of one calendar   *)
(* day can be told apart.                                                  *)
(***************************************************************************)
EXTENDS Integers, Sequences, FiniteSets, TLC

VARIABLES now, categories, budgets, transactions, accounts, result

vars == <<now, categories, budgets, transactions, accounts, result>>

(***************************************************************************)
(* Bounds                                                                  *)
(***************************************************************************)
SlotsPerDay == 2
HorizonDays == 1500
LeadDays == 2
MaxTx == 2
MaxLookback == 2

\* a date construction that raised ValueError; an omitted optional datetime
ValueError == [error |-> "ValueError"]
NoDatetime == [omitted |-> TRUE]

Min(a, b) == IF a < b THEN a ELSE b
Max(a, b) == IF a > b THEN a ELSE b

\* the element of a one-element set (the row .first() answers)
TheOne(S) == CHOOSE x \in S : TRUE

(***************************************************************************)
(* Calendar arithmetic: calendar.isleap, calendar.monthrange, datetime     *)
(* ordering, datetime subtraction (.days) and timedelta addition.         *)
(***************************************************************************)
IsLeap(y) == (y % 4 = 0) /\ ((y % 100 # 0) \/ (y % 400 = 0))

MonthRange(y, m) ==
    IF m = 2 THEN (IF IsLeap(y) THEN 29 ELSE 28)
    ELSE IF m \in {4, 6, 9, 11} THEN 30 ELSE 31

DaysBeforeYear(y) ==
    (y - 1) * 365 + ((y - 1) \div 4) - ((y - 1) \div 100) + ((y - 1) \div 400)

RECURSIVE DaysBeforeMonth(_, _)
DaysBeforeMonth(y, m) ==
    IF m = 1 THEN 0 ELSE DaysBeforeMonth(y, m - 1) + MonthRange(y, m - 1)

ToOrdinal(dt) == DaysBeforeYear(dt.year) + DaysBeforeMonth(dt.year, dt.month) + dt.day

\* The instant of a datetime, in slots since the calendar's origin.
Instant(dt) == ToOrdinal(dt) * SlotsPerDay + dt.tod

Date(y, m, d, t) == [year |-> y, month |-> m, day |-> d, tod |-> t]

FromOrdinal(n) ==
    LET y0 == (((n - 1) * 400) \div 146097) + 1
        y  == CHOOSE c \in (y0 - 1)..(y0 + 1) :
                  DaysBeforeYear(c) < n /\ n <= DaysBeforeYear(c + 1)
        r  == n - DaysBeforeYear(y)
        m  == CHOOSE c \in 1..12 :
                  DaysBeforeMonth(y, c) < r /\ r <= DaysBeforeMonth(y, c) + MonthRange(y, c)
    IN  Date(y, m, r - DaysBeforeMonth(y, m), 0)

FromInstant(i) ==
    [FromOrdinal(i \div SlotsPerDay) EXCEPT !.tod = i % SlotsPerDay]

\* dt + timedelta(days=n)
AddDays(dt, n) == FromInstant(Instant(dt) + n * SlotsPerDay)

\* (a - b).days : whole days, rounded towards minus infinity
DaysBetween(a, b) == (Instant(a) - Instant(b)) \div SlotsPerDay

\* datetime.replace(year=, month=, day=): raises ValueError for a day the
\* month does not have
Replace(dt, y, m, d) ==
    IF d >= 1 /\ d <= MonthRange(y, m)
    THEN [dt EXCEPT !.year = y, !.month = m, !.day = d]
    ELSE ValueError

IsDate(x) == x # ValueError /\ x # NoDatetime

(***************************************************************************)
(* BudgetService._get_current_period                                       *)
(***************************************************************************)
Periods == {"weekly", "monthly", "yearly"}

\* the returned tuple (period_start, period_end); a failed construction
\* propagates as ValueError
Interval(s, e) ==
    IF IsDate(s) /\ IsDate(e) THEN [period_start |-> s, period_end |-> e]
    ELSE ValueError

\* periods_passed = (now - start).days // 7
PeriodsPassedSkew(n, start) == (DaysBetween(n, start) + 6) \div 7
PeriodsPassed(n, start) == DaysBetween(n, start) \div 7

\* the month after (year, month); December wraps to January of year + 1
NextMonthNoCarry(year, month) ==
    IF month = 12 THEN <<year, 1>> ELSE <<year, month + 1>>
NextMonth(year, month) ==
    IF month = 12 THEN <<year + 1, 1>> ELSE <<year, month + 1>>

\* safe_day = min(start.day, calendar.monthrange(year, month)[1])
SafeDayUnclamped(start, year, month) == start.day
SafeDay(start, year, month) == Min(start.day, MonthRange(year, month))

\* months_diff, one less while the start's day-of-month is not yet reached
MonthsDiff(n, start) ==
    LET months_diff == (n.year - start.year) * 12 + (n.month - start.month)
    IN  IF n.day < start.day THEN months_diff - 1 ELSE months_diff

\* start.replace(year=y), with Feb 29 moved to Feb 28 in a non-leap year
YearlyAnchorAlways28(start, y) ==
    IF start.month = 2 /\ start.day = 29
    THEN Replace(start, y, start.month, 28)
    ELSE Replace(start, y, start.month, start.day)
YearlyAnchor(start, y) ==
    IF start.month = 2 /\ start.day = 29
    THEN (IF ~IsLeap(y) THEN Replace(start, y, start.month, 28)
                        ELSE Replace(start, y, start.month, start.day))
    ELSE Replace(start, y, start.month, start.day)

\* the branch "budget hasn't started yet": the first period
FirstPeriodSevenDays(budget) ==
    Interval(budget.start_date, AddDays(budget.start_date, 7))
FirstPeriod(budget) ==
    LET start == budget.start_date
    IN  CASE budget.period = "weekly" ->
                Interval(start, AddDays(start, 7))
          [] budget.period = "monthly" ->
                LET nx == NextMonth(start.year, start.month)
                IN  Interval(start, Replace(start, nx[1], nx[2], SafeDay(start, nx[1], nx[2])))
          [] budget.period = "yearly" ->
                Interval(start, YearlyAnchor(start, start.year + 1))

WeeklyPeriod(n, start) ==
    LET periods_passed == PeriodsPassed(n, start)
        period_start   == AddDays(start, 7 * periods_passed)
    IN  Interval(period_start, AddDays(period_start, 7))

MonthlyPeriod(n, start) ==
    LET months_diff == MonthsDiff(n, start)
        year        == start.year + ((start.month + months_diff - 1) \div 12)
        month       == ((start.month + months_diff - 1) % 12) + 1
        period_start == Replace(start, year, month, SafeDay(start, year, month))
        nx          == NextMonth(year, month)
        period_end  == Replace(start, nx[1], nx[2], SafeDay(start, nx[1], nx[2]))
    IN  Interval(period_start, period_end)

YearlyPeriod(n, start) ==
    LET years_diff   == n.year - start.year
        target_year  == start.year + years_diff
        period_start == YearlyAnchor(start, target_year)
        end_year     == target_year + 1
    IN  Interval(period_start, YearlyAnchor(start, end_year))

GetCurrentPeriod(budget, n) ==
    LET start == budget.start_date
    IN  IF Instant(n) < Instant(start) THEN FirstPeriod(budget)
        ELSE CASE budget.period = "weekly"  -> WeeklyPeriod(n, start)
               [] budget.period = "monthly" -> MonthlyPeriod(n, start)
               [] budget.period = "yearly"  -> YearlyPeriod(n, start)

(***************************************************************************)
(* Stored data: categories, budgets, transactions, account balances        *)
(***************************************************************************)
DefaultCategories ==
    { [id |-> 1, name |-> "Food",   type |-> "expense"],
      [id |-> 2, name |-> "Bills",  type |-> "expense"],
      [id |-> 3, name |-> "Salary", type |-> "income"] }

AccountNames == {"Cash", "Bank"}

TransactionTypes == {"expense", "income"}

\* validate_transaction_type: the enum value, or InvalidInputError
ValidTransactionType(t) == t \in TransactionTypes

\* validate_budget_period
ValidBudgetPeriod(p) == p \in Periods

\* CategoryService.get_category_by_name_and_type: the matching rows
CategoryByNameAndType(name, type) ==
    {c \in categories : c.name = name /\ c.type = type}

\* query(Budget).filter_by(category_id=...): the matching rows
BudgetsOfCategory(category_id) ==
    {b \in budgets : b.category_id = category_id}

RECURSIVE SumAmountInMyr(_)
SumAmountInMyr(ts) ==
    IF ts = {} THEN 0
    ELSE LET t == CHOOSE x \in ts : TRUE
         IN  t.amount_in_myr + SumAmountInMyr(ts \ {t})

\* BudgetService._calculate_spent
SpentRowsAnyDatetime(category_id, period_start, period_end) ==
    {t \in transactions : t.category_id = category_id}
SpentRows(category_id, period_start, period_end) ==
    {t \in transactions :
        /\ t.category_id = category_id
        /\ Instant(t.datetime) >= Instant(period_start)
        /\ Instant(t.datetime) < Instant(period_end)}

CalculateSpent(category_id, period_start, period_end) ==
    SumAmountInMyr(SpentRows(category_id, period_start, period_end))

\* float((spent / limit) * 100) as the exact fraction <<numerator, denominator>>
Percentage(spent, limit) ==
    IF limit > 0 THEN <<spent * 100, limit>> ELSE <<0, 1>>

\* "Only allow expense category"
ExpenseOnlyUnchecked(transaction_type) == TRUE
ExpenseOnly(transaction_type) == transaction_type = "expense"

Raised(op, name, t, n, error) ==
    [op |-> op, category |-> name, ttype |-> t, at |-> n, status |-> error]

(***************************************************************************)
(* BudgetService.get_budget_status: what the call returns (or raises) in   *)
(* the current state at instant n.  The call reads only.                   *)
(***************************************************************************)
BudgetStatus(name, t, n) ==
    LET op == "get_budget_status"
    IN
    IF ~ValidTransactionType(t) THEN Raised(op, name, t, n, "InvalidInputError")
    ELSE IF ~ExpenseOnly(t) THEN Raised(op, name, t, n, "InvalidInputError")
    ELSE IF CategoryByNameAndType(name, t) = {} THEN Raised(op, name, t, n, "NotFoundError")
    ELSE
      LET category == CHOOSE c \in CategoryByNameAndType(name, t) : TRUE
      IN
      IF BudgetsOfCategory(category.id) = {} THEN Raised(op, name, t, n, "NotFoundError")
      ELSE
        LET budget == CHOOSE b \in BudgetsOfCategory(category.id) : TRUE
            period == GetCurrentPeriod(budget, n)
        IN
        IF period = ValueError THEN Raised(op, name, t, n, "ValueError")
        ELSE
          LET spent == CalculateSpent(category.id, period.period_start, period.period_end)
          IN  [op |-> op, category |-> name, ttype |-> t, at |-> n, status |-> "ok",
               budget       |-> budget,
               limit        |-> budget.limit_amount,
               spent        |-> spent,
               remaining    |-> budget.limit_amount - spent,
               percentage   |-> Percentage(spent, budget.limit_amount),
               period_start |-> period.period_start,
               period_end   |-> period.period_end,
               is_exceeded  |-> spent > budget.limit_amount]

GetBudgetStatusRolling(name, t) ==
    /\ result' = BudgetStatus(name, t, now)
    /\ budgets' =
          IF BudgetStatus(name, t, now).status = "ok"
          THEN (budgets \ {BudgetStatus(name, t, now).budget})
                 \cup {[BudgetStatus(name, t, now).budget EXCEPT
                           !.start_date = BudgetStatus(name, t, now).period_start]}
          ELSE budgets
    /\ UNCHANGED <<now, categories, transactions, accounts>>
GetBudgetStatus(name, t) ==
    /\ result' = BudgetStatus(name, t, now)
    /\ UNCHANGED <<now, categories, budgets, transactions, accounts>>

(***************************************************************************)
(* Budget operations                                                       *)
(***************************************************************************)
\* the outcome of a writing call: returned normally ("ok") or the error raised
Outcome(op, name, t, status) ==
    [op |-> op, category |-> name, ttype |-> t, status |-> status]

\* validate_non_negative_amount(amount, allow_zero): the error raised, if any
AmountError(amount, allow_zero) ==
    IF ~allow_zero /\ amount = 0 THEN "InvalidInputError"
    ELSE IF amount < 0 THEN "InvalidInputError"
    ELSE "ok"

\* BudgetService.get_category_budget: the budget found (a set with at most
\* one element) or the error raised
CategoryBudget(name, t) ==
    LET op == "get_category_budget"
    IN
    IF ~ValidTransactionType(t) THEN Outcome(op, name, t, "InvalidInputError")
    ELSE IF ~ExpenseOnly(t) THEN Outcome(op, name, t, "InvalidInputError")
    ELSE IF CategoryByNameAndType(name, t) = {} THEN Outcome(op, name, t, "NotFoundError")
    ELSE LET category == CHOOSE c \in CategoryByNameAndType(name, t) : TRUE
             found    == BudgetsOfCategory(category.id)
         IN  [op |-> op, category |-> name, ttype |-> t, status |-> "ok",
              budget |-> IF found = {} THEN {} ELSE {CHOOSE b \in found : TRUE}]

GetCategoryBudget(name, t) ==
    /\ result' = CategoryBudget(name, t)
    /\ UNCHANGED <<now, categories, budgets, transactions, accounts>>

\* BudgetService.add_budget: the error raised, or "ok"
AddBudgetStatusNoDuplicateCheck(name, t, limit_amount, period) ==
    IF name = "" THEN "InvalidInputError"
    ELSE IF ~ValidTransactionType(t) THEN "InvalidInputError"
    ELSE IF ~ExpenseOnly(t) THEN "InvalidInputError"
    ELSE IF AmountError(limit_amount, FALSE) # "ok" THEN AmountError(limit_amount, FALSE)
    ELSE IF ~ValidBudgetPeriod(period) THEN "InvalidInputError"
    ELSE IF CategoryByNameAndType(name, t) = {} THEN "NotFoundError"
    ELSE "ok"
AddBudgetStatus(name, t, limit_amount, period) ==
    IF name = "" THEN "InvalidInputError"
    ELSE IF ~ValidTransactionType(t) THEN "InvalidInputError"
    ELSE IF ~ExpenseOnly(t) THEN "InvalidInputError"
    ELSE IF AmountError(limit_amount, FALSE) # "ok" THEN AmountError(limit_amount, FALSE)
    ELSE IF ~ValidBudgetPeriod(period) THEN "InvalidInputError"
    ELSE IF CategoryByNameAndType(name, t) = {} THEN "NotFoundError"
    ELSE IF CategoryBudget(name, t).status # "ok" THEN CategoryBudget(name, t).status
    ELSE IF CategoryBudget(name, t).budget # {} THEN "AlreadyExistsError"
    ELSE "ok"

AddBudget(name, t, limit_amount, period, start_date) ==
    LET status == AddBudgetStatus(name, t, limit_amount, period)
    IN  /\ result' = Outcome("add_budget", name, t, status)
        /\ budgets' =
              IF status = "ok"
              THEN LET category == CHOOSE c \in CategoryByNameAndType(name, t) : TRUE
                   IN  budgets \cup
                         {[category_id  |-> category.id,
                           limit_amount |-> limit_amount,
                           period       |-> period,
                           start_date   |-> IF start_date = NoDatetime THEN now
                                            ELSE start_date]}
              ELSE budgets
        /\ UNCHANGED <<now, categories, transactions, accounts>>

\* the checks of edit_budget and delete_budget before any field is touched
BudgetLookupStatus(name, t) ==
    IF name = "" THEN "InvalidInputError"
    ELSE IF ~ValidTransactionType(t) THEN "InvalidInputError"
    ELSE IF ~ExpenseOnly(t) THEN "InvalidInputError"
    ELSE IF CategoryByNameAndType(name, t) = {} THEN "NotFoundError"
    ELSE IF CategoryBudget(name, t).status # "ok" THEN CategoryBudget(name, t).status
    ELSE IF CategoryBudget(name, t).budget = {} THEN "NotFoundError"
    ELSE "ok"

\* BudgetService.edit_budget.  new_limit_amount is a set, empty when the
\* argument is omitted or blank; new_period is "" when omitted or blank.
\* The fields are assigned one after the other on the session's Budget
\* object, so a field assigned before a later validation raises stays
\* assigned.
EditBudget(name, t, new_limit_amount, new_period, new_start_date) ==
    LET lookup == BudgetLookupStatus(name, t)
    IN
    IF lookup # "ok"
    THEN /\ result' = Outcome("edit_budget", name, t, lookup)
         /\ UNCHANGED <<now, categories, budgets, transactions, accounts>>
    ELSE
      LET budget == CHOOSE b \in CategoryBudget(name, t).budget : TRUE
          limit_error ==
              IF new_limit_amount = {} THEN "ok"
              ELSE AmountError(CHOOSE v \in new_limit_amount : TRUE, FALSE)
          b1 == IF new_limit_amount = {} \/ limit_error # "ok" THEN budget
                ELSE [budget EXCEPT !.limit_amount = CHOOSE v \in new_limit_amount : TRUE]
          period_error ==
              IF new_period = "" \/ ValidBudgetPeriod(new_period) THEN "ok"
              ELSE "InvalidInputError"
          b2 == IF new_period = "" \/ period_error # "ok" THEN b1
                ELSE [b1 EXCEPT !.period = new_period]
          b3 == IF new_start_date = NoDatetime THEN b2
                ELSE [b2 EXCEPT !.start_date = new_start_date]
          status == IF limit_error # "ok" THEN limit_error
                    ELSE IF period_error # "ok" THEN period_error
                    ELSE "ok"
          after  == IF limit_error # "ok" THEN budget
                    ELSE IF period_error # "ok" THEN b1
                    ELSE b3
      IN  /\ result' = Outcome("edit_budget", name, t, status)
          /\ budgets' = (budgets \ {budget}) \cup {after}
          /\ UNCHANGED <<now, categories, transactions, accounts>>

\* BudgetService.delete_budget
DeleteBudget(name, t) ==
    LET lookup == BudgetLookupStatus(name, t)
    IN  /\ result' = Outcome("delete_budget", name, t, lookup)
        /\ budgets' =
              IF lookup = "ok"
              THEN budgets \ CategoryBudget(name, t).budget
              ELSE budgets
        /\ UNCHANGED <<now, categories, transactions, accounts>>

(***************************************************************************)
(* BudgetService.check_budget_warning                                      *)
(***************************************************************************)
WarningLevelStrict(new_percentage) ==
    IF new_percentage[1] > 100 * new_percentage[2] THEN "exceeded"
    ELSE IF new_percentage[1] > 90 * new_percentage[2] THEN "warning"
    ELSE IF new_percentage[1] > 80 * new_percentage[2] THEN "caution"
    ELSE "none"
WarningLevel(new_percentage) ==
    IF new_percentage[1] >= 100 * new_percentage[2] THEN "exceeded"
    ELSE IF new_percentage[1] >= 90 * new_percentage[2] THEN "warning"
    ELSE IF new_percentage[1] >= 80 * new_percentage[2] THEN "caution"
    ELSE "none"

\* the errors check_budget_warning turns into the "no budget" answer
CaughtByWarningInputOnly == {"InvalidInputError"}
CaughtByWarning == {"NotFoundError", "InvalidInputError"}

BudgetWarning(name, t, additional_amount, n) ==
    LET op     == "check_budget_warning"
        status == BudgetStatus(name, t, n)
    IN
    IF status.status = "ok"
    THEN LET new_spent      == status.spent + additional_amount
             new_percentage == Percentage(new_spent, status.limit)
         IN  [op |-> op, category |-> name, ttype |-> t, at |-> n, status |-> "ok",
              additional_amount  |-> additional_amount,
              has_budget         |-> TRUE,
              warning_level      |-> WarningLevel(new_percentage),
              current_percentage |-> status.percentage,
              new_percentage     |-> new_percentage,
              limit              |-> status.limit,
              current_spent      |-> status.spent,
              new_spent          |-> new_spent,
              remaining_after    |-> status.limit - new_spent]
    ELSE IF status.status \in CaughtByWarning
    THEN [op |-> op, category |-> name, ttype |-> t, at |-> n, status |-> "ok",
          additional_amount  |-> additional_amount,
          has_budget         |-> FALSE,
          warning_level      |-> "none",
          current_percentage |-> <<0, 1>>,
          new_percentage     |-> <<0, 1>>,
          limit              |-> 0,
          current_spent      |-> 0,
          new_spent          |-> 0,
          remaining_after    |-> 0]
    ELSE Raised(op, name, t, n, status.status)

CheckBudgetWarning(name, t, additional_amount) ==
    /\ result' = BudgetWarning(name, t, additional_amount, now)
    /\ UNCHANGED <<now, categories, budgets, transactions, accounts>>

(***************************************************************************)
(* BudgetService.get_all_budget_statuses and get_budgets_at_risk           *)
(***************************************************************************)
\* the lists query(Budget).all() can answer: the stored budgets in an order
\* the query does not fix
BudgetRows ==
    {rows \in [1..Cardinality(budgets) -> budgets] :
        \A i, j \in 1..Cardinality(budgets) : i # j => rows[i] # rows[j]}

\* budget.category
CategoryOf(budget) == CHOOSE c \in categories : c.id = budget.category_id

\* "except Exception": the errors the loop of a batch operation skips
ExceptExceptionNotFoundOnly(error) == error = "NotFoundError"
ExceptException(error) == TRUE

\* the error get_budget_status raises for a category, "ok" when it returns;
\* failing holds the ids of the categories for which the database fails
RowStatus(category, failing, status) ==
    IF category.id \in failing THEN "DatabaseError" ELSE status.status

\* one pass of the loop of get_all_budget_statuses: the statuses appended
RowEntries(category, row_status, status) ==
    IF category.type # "expense" \/ row_status # "ok" THEN << >> ELSE << status >>

\* the error that leaves the loop, "ok" when the pass is completed
RowAbort(category, row_status) ==
    IF category.type # "expense" \/ row_status = "ok" \/ ExceptException(row_status)
    THEN "ok" ELSE row_status

StatusOfRow(category, n) == BudgetStatus(category.name, category.type, n)

RECURSIVE AllBudgetStatuses(_, _, _)
AllBudgetStatuses(rows, failing, n) ==
    IF rows = << >> THEN << >>
    ELSE RowEntries(CategoryOf(Head(rows)),
                    RowStatus(CategoryOf(Head(rows)), failing,
                              StatusOfRow(CategoryOf(Head(rows)), n)),
                    StatusOfRow(CategoryOf(Head(rows)), n))
           \o AllBudgetStatuses(Tail(rows), failing, n)

\* the errors that leave the loop of get_all_budget_statuses
AllBudgetStatusesAborts(rows, failing, n) ==
    {RowAbort(CategoryOf(rows[i]),
              RowStatus(CategoryOf(rows[i]), failing, StatusOfRow(CategoryOf(rows[i]), n))) :
        i \in 1..Len(rows)} \ {"ok"}

\* what get_all_budget_statuses returns (or raises)
AllBudgetStatusesResult(op, rows, failing, n, aborts) ==
    IF aborts # {}
    THEN [op |-> op, at |-> n, rows |-> rows, failing |-> failing,
          status |-> CHOOSE e \in aborts : TRUE]
    ELSE [op |-> op, at |-> n, rows |-> rows, failing |-> failing, status |-> "ok",
          entries |-> AllBudgetStatuses(rows, failing, n)]

GetAllBudgetStatuses(rows, failing) ==
    /\ result' = AllBudgetStatusesResult("get_all_budget_statuses", rows, failing, now,
                                         AllBudgetStatusesAborts(rows, failing, now))
    /\ UNCHANGED <<now, categories, budgets, transactions, accounts>>

\* a >= b for percentages <<numerator, denominator>>
PercentageAtLeast(a, b) == a[1] * b[2] >= b[1] * a[2]

\* the position list.sort(key=percentage, reverse=True) gives x in a list
\* sorted from highest to lowest: behind every element that is not lower
InsertDescending(sorted, x) ==
    LET k == Cardinality({i \in 1..Len(sorted) :
                             PercentageAtLeast(sorted[i].percentage, x.percentage)})
    IN  SubSeq(sorted, 1, k) \o << x >> \o SubSeq(sorted, k + 1, Len(sorted))

Unsorted(statuses) == statuses
RECURSIVE SortDescending(_)
SortDescending(statuses) ==
    IF statuses = << >> THEN << >>
    ELSE InsertDescending(SortDescending(SubSeq(statuses, 1, Len(statuses) - 1)),
                          statuses[Len(statuses)])

\* the loop of get_budgets_at_risk: the statuses at or above the threshold
AtRisk(all_statuses, threshold) ==
    SelectSeq(all_statuses, LAMBDA st : PercentageAtLeast(st.percentage, threshold))

\* what get_budgets_at_risk returns (or raises)
BudgetsAtRiskResult(all, threshold) ==
    IF all.status # "ok"
    THEN [op |-> "get_budgets_at_risk", at |-> all.at, threshold |-> threshold,
          rows |-> all.rows, failing |-> all.failing, status |-> all.status]
    ELSE [op |-> "get_budgets_at_risk", at |-> all.at, threshold |-> threshold,
          rows |-> all.rows, failing |-> all.failing, status |-> "ok",
          all_statuses |-> all.entries,
          entries |-> SortDescending(AtRisk(all.entries, threshold))]

DefaultThreshold == <<80, 1>>

GetBudgetsAtRisk(rows, failing, threshold) ==
    /\ result' = BudgetsAtRiskResult(
                     AllBudgetStatusesResult("get_all_budget_statuses", rows, failing, now,
                                             AllBudgetStatusesAborts(rows, failing, now)),
                     threshold)
    /\ UNCHANGED <<now, categories, budgets, transactions, accounts>>

(***************************************************************************)
(* Transaction operations (TransactionService)                             *)
(***************************************************************************)
SupportedCurrencies ==
    {"MYR", "USD", "EUR", "GBP", "SGD", "AUD", "JPY", "CNY", "THB", "IDR"}

\* format_amount of amount * exchange_rate: the rate is held in hundredths
\* (1.00 = 100) and the product is rounded half up to a whole cent
ConvertedAmount(amount, exchange_rate) == (amount * exchange_rate + 50) \div 100

TxOutcome(op, status) == [op |-> op, status |-> status]

\* the id of the next inserted row: one more than the largest id in use
NextTransactionId ==
    IF transactions = {} THEN 1
    ELSE (CHOOSE i \in {t.id : t \in transactions} :
              \A t \in transactions : t.id <= i) + 1

\* get_transaction: the matching rows
TransactionById(id) == {t \in transactions : t.id = id}

\* balance effect of a transaction on its account
SignedAmountAlwaysDebit(transaction_type, amount_in_myr) == 0 - amount_in_myr
SignedAmount(transaction_type, amount_in_myr) ==
    IF transaction_type = "income" THEN amount_in_myr ELSE 0 - amount_in_myr

\* TransactionService.add_transaction: the error raised, or "ok"
AddTransactionStatus(t, category_name, account_name, amount, currency) ==
    IF ~ValidTransactionType(t) THEN "InvalidInputError"
    ELSE IF category_name = "" THEN "InvalidInputError"
    ELSE IF account_name = "" THEN "InvalidInputError"
    ELSE IF AmountError(amount, TRUE) # "ok" THEN AmountError(amount, TRUE)
    ELSE IF currency = "" THEN "InvalidInputError"
    ELSE IF currency \notin SupportedCurrencies THEN "InvalidInputError"
    ELSE IF CategoryByNameAndType(category_name, t) = {} THEN "NotFoundError"
    ELSE IF account_name \notin DOMAIN accounts THEN "NotFoundError"
    ELSE "ok"

\* rate is the exchange rate the currency service answers for a currency
\* other than MYR
AddTransaction(t, category_name, account_name, amount, custom_datetime, currency, rate) ==
    LET status == AddTransactionStatus(t, category_name, account_name, amount, currency)
    IN
    IF status # "ok"
    THEN /\ result' = TxOutcome("add_transaction", status)
         /\ UNCHANGED <<now, categories, budgets, transactions, accounts>>
    ELSE
      LET category      == CHOOSE c \in CategoryByNameAndType(category_name, t) : TRUE
          exchange_rate == IF currency = "MYR" THEN 100 ELSE rate
          amount_in_myr == IF currency = "MYR" THEN amount
                           ELSE ConvertedAmount(amount, exchange_rate)
          timestamp     == IF custom_datetime # NoDatetime THEN custom_datetime ELSE now
      IN  /\ NextTransactionId <= MaxTx
          /\ transactions' = transactions \cup
                {[id               |-> NextTransactionId,
                  datetime         |-> timestamp,
                  transaction_type |-> t,
                  category_id      |-> category.id,
                  account          |-> account_name,
                  amount           |-> amount,
                  currency         |-> currency,
                  amount_in_myr    |-> amount_in_myr,
                  exchange_rate    |-> exchange_rate]}
          /\ accounts' = [accounts EXCEPT
                             ![account_name] = @ + SignedAmount(t, amount_in_myr)]
          /\ result' = TxOutcome("add_transaction", "ok")
          /\ UNCHANGED <<now, categories, budgets>>

\* the category an edit leaves on the transaction: the old one when the
\* category name is blank, else the one looked up under the new type
EditedCategory(old_category_id, category_name, new_type) ==
    IF category_name = "" THEN {old_category_id}
    ELSE {c.id : c \in CategoryByNameAndType(category_name, new_type)}

\* TransactionService.edit_transaction.  Blank strings keep the stored
\* value; amount is a set, empty when the amount is left blank.
EditTransaction(id, t, category_name, account_name, amount, custom_datetime) ==
    IF TransactionById(id) = {}
    THEN /\ result' = TxOutcome("edit_transaction", "NotFoundError")
         /\ UNCHANGED <<now, categories, budgets, transactions, accounts>>
    ELSE
      LET transaction  == CHOOSE x \in TransactionById(id) : TRUE
          old_type     == transaction.transaction_type
          old_account  == transaction.account
          new_type     == IF t # "" THEN t ELSE old_type
          new_category == EditedCategory(transaction.category_id, category_name, new_type)
          new_account  == IF account_name # "" THEN account_name ELSE old_account
          new_amount   == IF amount # {} THEN CHOOSE v \in amount : TRUE
                          ELSE transaction.amount
          status ==
              IF t # "" /\ ~ValidTransactionType(t) THEN "InvalidInputError"
              ELSE IF new_category = {} THEN "NotFoundError"
              ELSE IF new_account \notin DOMAIN accounts THEN "NotFoundError"
              ELSE IF amount # {} /\ AmountError(new_amount, TRUE) # "ok"
                   THEN AmountError(new_amount, TRUE)
              ELSE "ok"
      IN
      IF status # "ok"
      THEN /\ result' = TxOutcome("edit_transaction", status)
           /\ UNCHANGED <<now, categories, budgets, transactions, accounts>>
      ELSE
        LET old_amount_in_myr == transaction.amount_in_myr
            new_amount_in_myr == ConvertedAmount(new_amount, transaction.exchange_rate)
            reversed == [accounts EXCEPT
                            ![old_account] = @ - SignedAmount(old_type, old_amount_in_myr)]
            edited == [transaction EXCEPT
                          !.datetime         = IF custom_datetime # NoDatetime
                                               THEN custom_datetime ELSE @,
                          !.transaction_type = new_type,
                          !.category_id      = CHOOSE c \in new_category : TRUE,
                          !.account          = new_account,
                          !.amount           = new_amount,
                          !.amount_in_myr    = new_amount_in_myr]
        IN  /\ transactions' = (transactions \ {transaction}) \cup {edited}
            /\ accounts' = [reversed EXCEPT
                               ![new_account] = @ + SignedAmount(new_type, new_amount_in_myr)]
            /\ result' = TxOutcome("edit_transaction", "ok")
            /\ UNCHANGED <<now, categories, budgets>>

\* TransactionService.delete_transaction
DeleteTransaction(id) ==
    IF TransactionById(id) = {}
    THEN /\ result' = TxOutcome("delete_transaction", "NotFoundError")
         /\ UNCHANGED <<now, categories, budgets, transactions, accounts>>
    ELSE
      LET transaction == CHOOSE x \in TransactionById(id) : TRUE
      IN  /\ accounts' = [accounts EXCEPT
                             ![transaction.account] =
                                 @ - SignedAmount(transaction.transaction_type,
                                                  transaction.amount_in_myr)]
          /\ transactions' = transactions \ {transaction}
          /\ result' = TxOutcome("delete_transaction", "ok")
          /\ UNCHANGED <<now, categories, budgets>>

(***************************************************************************)
(* Category operations (CategoryService)                                   *)
(***************************************************************************)
MaxCategoryId == 4

\* the id of the next inserted category: one more than the largest in use
NextCategoryId ==
    IF categories = {} THEN 1
    ELSE (CHOOSE i \in {c.id : c \in categories} :
              \A c \in categories : c.id <= i) + 1

\* CategoryService.add_category: the error raised, or "ok".  The name
\* column is unique across both types: a name in use under the other type
\* fails at the commit, which the method turns into AlreadyExistsError.
AddCategoryStatus(name, t) ==
    IF ~ValidTransactionType(t) THEN "InvalidInputError"
    ELSE IF name = "" THEN "InvalidInputError"
    ELSE IF CategoryByNameAndType(name, t) # {} THEN "AlreadyExistsError"
    ELSE IF \E c \in categories : c.name = name THEN "AlreadyExistsError"
    ELSE "ok"

AddCategory(name, t) ==
    /\ result' = Outcome("add_category", name, t, AddCategoryStatus(name, t))
    /\ IF AddCategoryStatus(name, t) = "ok"
       THEN /\ NextCategoryId <= MaxCategoryId
            /\ categories' = categories \cup
                  {[id |-> NextCategoryId, name |-> name, type |-> t]}
       ELSE categories' = categories
    /\ UNCHANGED <<now, budgets, transactions, accounts>>

\* CategoryService.edit_category: the error raised, or "ok".  The commit is
\* not guarded: a new name in use under the other type leaves the method as
\* the database's IntegrityError.
EditCategoryStatus(old_category_input, new_category_input, t) ==
    IF ~ValidTransactionType(t) THEN "InvalidInputError"
    ELSE IF old_category_input = "" \/ new_category_input = "" THEN "InvalidInputError"
    ELSE IF CategoryByNameAndType(old_category_input, t) = {} THEN "NotFoundError"
    ELSE IF CategoryByNameAndType(new_category_input, t)
               \notin {{}, CategoryByNameAndType(old_category_input, t)}
         THEN "AlreadyExistsError"
    ELSE IF \E c \in categories : c.name = new_category_input /\ c.type # t
         THEN "IntegrityError"
    ELSE "ok"

EditCategory(old_category_input, new_category_input, t) ==
    /\ result' = Outcome("edit_category", old_category_input, t,
                         EditCategoryStatus(old_category_input, new_category_input, t))
    /\ categories' =
          IF EditCategoryStatus(old_category_input, new_category_input, t) = "ok"
          THEN {IF c \in CategoryByNameAndType(old_category_input, t)
                THEN [c EXCEPT !.name = new_category_input] ELSE c : c \in categories}
          ELSE categories
    /\ UNCHANGED <<now, budgets, transactions, accounts>>

\* the query of delete_category for a transaction that uses the category:
\* filter_by(category_id=..., transaction_type=...)
UsedBy(category, transaction_type) ==
    {x \in transactions :
        x.category_id = category.id /\ x.transaction_type = transaction_type}

\* CategoryService.delete_category: the error raised, or "ok".  Deleting a
\* category sets the category_id of the transactions still attached to it
\* to NULL, which the NOT NULL column refuses at the commit: the
\* IntegrityError leaves the method and the database keeps everything.
DeleteCategoryStatus(name, t) ==
    IF ~ValidTransactionType(t) THEN "InvalidInputError"
    ELSE IF name = "" THEN "InvalidInputError"
    ELSE IF CategoryByNameAndType(name, t) = {} THEN "NotFoundError"
    ELSE IF UsedBy(TheOne(CategoryByNameAndType(name, t)), t) # {}
         THEN "CategoryInUseError"
    ELSE IF \E x \in transactions : x.category_id = TheOne(CategoryByNameAndType(name, t)).id
         THEN "IntegrityError"
    ELSE "ok"

\* the budgets of a deleted category go with it (cascade="all, delete-orphan")
DeleteCategory(name, t) ==
    /\ result' = Outcome("delete_category", name, t, DeleteCategoryStatus(name, t))
    /\ IF DeleteCategoryStatus(name, t) = "ok"
       THEN /\ categories' = categories \ CategoryByNameAndType(name, t)
            /\ budgets' = {b \in budgets :
                              b.category_id # TheOne(CategoryByNameAndType(name, t)).id}
       ELSE UNCHANGED <<categories, budgets>>
    /\ UNCHANGED <<now, transactions, accounts>>

(***************************************************************************)
(* PredictionService                                                       *)
(***************************************************************************)
CategoryName(category_id) ==
    {c.name : c \in {x \in categories : x.id = category_id}}

\* the filter of get_category_spending and get_spending_in_period: the
\* category's name, the EXPENSE type and start_date <= datetime < end_date
ExpenseRows(category_name, start_date, end_date) ==
    {t \in transactions :
        /\ Instant(t.datetime) >= Instant(start_date)
        /\ Instant(t.datetime) < Instant(end_date)
        /\ category_name \in CategoryName(t.category_id)
        /\ t.transaction_type = "expense"}

\* PredictionService.get_spending_in_period
SpendingInPeriod(category_name, start_date, end_date) ==
    SumAmountInMyr(ExpenseRows(category_name, start_date, end_date))

\* PredictionService.get_category_spending: the calendar month (year, month)
CategorySpending(category_name, year, month) ==
    LET nx == NextMonth(year, month)
    IN  SumAmountInMyr(ExpenseRows(category_name, Date(year, month, 1, 0),
                                   Date(nx[1], nx[2], 1, 0)))

\* month -= 1, wrapping to December of the previous year
PreviousMonthSameYear(year, month) ==
    IF month - 1 < 1 THEN <<year, 12>> ELSE <<year, month - 1>>
PreviousMonth(year, month) ==
    IF month - 1 < 1 THEN <<year - 1, 12>> ELSE <<year, month - 1>>

\* the list built by the loop of get_historical_monthly_spending, most
\* recent month first
RECURSIVE HistoricalBackwards(_, _, _, _)
HistoricalBackwards(category_name, year, month, lookback_months) ==
    IF lookback_months <= 0 THEN << >>
    ELSE LET pm == PreviousMonth(year, month)
         IN  << CategorySpending(category_name, pm[1], pm[2]) >>
               \o HistoricalBackwards(category_name, pm[1], pm[2], lookback_months - 1)

Reverse(seq) == [i \in 1..Len(seq) |-> seq[Len(seq) + 1 - i]]

\* PredictionService.get_historical_monthly_spending
HistoricalMonthlySpendingNonZero(category_name, current_year, current_month, lookback_months) ==
    SelectSeq(Reverse(HistoricalBackwards(category_name, current_year, current_month,
                                          lookback_months)),
              LAMBDA spending : spending # 0)
HistoricalMonthlySpending(category_name, current_year, current_month, lookback_months) ==
    Reverse(HistoricalBackwards(category_name, current_year, current_month, lookback_months))

\* PredictionService.get_budget_period_info: a set, empty for None
BudgetPeriodKinds == {"monthly"}

BudgetPeriodInfo(category_name, n) ==
    LET cats == CategoryByNameAndType(category_name, "expense")
    IN
    IF cats = {} THEN {}
    ELSE
      LET category == CHOOSE c \in cats : TRUE
          found    == {b \in BudgetsOfCategory(category.id) : b.period \in BudgetPeriodKinds}
      IN
      IF found = {} THEN {}
      ELSE
        LET budget == CHOOSE b \in found : TRUE
            period == GetCurrentPeriod(budget, n)
        IN  IF period = ValueError THEN {}
            ELSE {[period_start   |-> period.period_start,
                   period_end     |-> period.period_end,
                   budget_limit   |-> budget.limit_amount,
                   days_in_period |-> DaysBetween(period.period_end, period.period_start)]}

\* PredictionService.calculate_days_passed
CalculateDaysPassedExclusive(today, period_start, period_end, days_in_period) ==
    IF Instant(today) < Instant(period_start) THEN 0
    ELSE IF Instant(today) >= Instant(period_end) THEN days_in_period
    ELSE DaysBetween(today, period_start)
CalculateDaysPassed(today, period_start, period_end, days_in_period) ==
    IF Instant(today) < Instant(period_start) THEN 0
    ELSE IF Instant(today) >= Instant(period_end) THEN days_in_period
    ELSE DaysBetween(today, period_start) + 1

\* the dictionary get_period_data returns; budget_limit is a set, empty for
\* None
PeriodRecord(period_start, period_end, days_in_period, days_passed, current_spending, budget_limit) ==
    [period_start     |-> period_start,
     period_end       |-> period_end,
     days_in_period   |-> days_in_period,
     days_passed      |-> days_passed,
     days_remaining   |-> Max(0, days_in_period - days_passed),
     current_spending |-> current_spending,
     budget_limit     |-> budget_limit]

\* get_period_data when the category has a budget period
BudgetPeriodData(category_name, today, info) ==
    PeriodRecord(info.period_start, info.period_end, info.days_in_period,
                 CalculateDaysPassed(today, info.period_start, info.period_end,
                                     info.days_in_period),
                 SpendingInPeriod(category_name, info.period_start, info.period_end),
                 {info.budget_limit})

\* days passed of the calendar month (year, month) as of today
CalendarDaysPassed(year, month, today, days_in_period) ==
    IF year = today.year /\ month = today.month THEN today.day
    ELSE IF year < today.year \/ (year = today.year /\ month < today.month)
         THEN days_in_period
    ELSE 0

FirstOfMonth(ym) == Date(ym[1], ym[2], 1, 0)

\* get_period_data when it has none: the calendar month
CalendarPeriodData(category_name, year, month, today) ==
    PeriodRecord(Date(year, month, 1, 0), FirstOfMonth(NextMonth(year, month)),
                 MonthRange(year, month),
                 CalendarDaysPassed(year, month, today, MonthRange(year, month)),
                 CategorySpending(category_name, year, month),
                 {})

\* PredictionService.get_period_data
PeriodData(category_name, year, month, today) ==
    IF BudgetPeriodInfo(category_name, today) # {}
    THEN BudgetPeriodData(category_name, today,
                          TheOne(BudgetPeriodInfo(category_name, today)))
    ELSE CalendarPeriodData(category_name, year, month, today)

\* the method name calculate_historical_rate returns with the rate
HistoricalMethod(historical_totals) == "Exponential Smoothing"

\* PredictionService.calculate_confidence.  The score
\* (min(d/7, 1) + min(h/6, 1)) / 2 is compared as the integer 84 * score.
CalculateConfidenceUncapped(days_passed, historical_count) ==
    IF 10 * (6 * days_passed + 7 * historical_count) >= 588 THEN "high"
    ELSE IF 10 * (6 * days_passed + 7 * historical_count) >= 336 THEN "medium"
    ELSE "low"
CalculateConfidence(days_passed, historical_count) ==
    LET day_score     == Min(6 * days_passed, 42)
        history_score == Min(7 * historical_count, 42)
        total_score   == day_score + history_score
    IN  IF 10 * total_score >= 588 THEN "high"
        ELSE IF 10 * total_score >= 336 THEN "medium"
        ELSE "low"

\* sum(historical_values)
RECURSIVE SumOfValues(_)
SumOfValues(values) ==
    IF values = << >> THEN 0 ELSE Head(values) + SumOfValues(Tail(values))

\* set(historical_values)
SetOfValues(values) == {values[i] : i \in 1..Len(values)}

\* the except branch of predict_with_exponential_smoothing: the arithmetic
\* mean as the fraction <<sum, count>>, 0 for an empty list
SmoothingFallbackFirst(historical_values) ==
    IF historical_values # << >> THEN <<historical_values[1], 1>> ELSE <<0, 1>>
SmoothingFallback(historical_values) ==
    IF historical_values # << >>
    THEN <<SumOfValues(historical_values), Len(historical_values)>>
    ELSE <<0, 1>>

\* PredictionService.predict_with_exponential_smoothing.  fit is what the
\* statsmodels calls do: [ok |-> FALSE] when SimpleExpSmoothing, fit or
\* forecast raises, else [ok |-> TRUE, value |-> the forecast].
PredictWithExponentialSmoothingValue(historical_values, fit) ==
    IF Len(historical_values) < 2
    THEN (IF historical_values # << >> THEN <<historical_values[1], 1>> ELSE <<0, 1>>)
    ELSE IF Cardinality(SetOfValues(historical_values)) = 1
    THEN <<historical_values[1], 1>>
    ELSE IF fit.ok THEN fit.value
    ELSE SmoothingFallback(historical_values)

\* Decimal and float values as exact fractions <<numerator, denominator>>
\* in lowest terms with a positive denominator (the 28 significant digits
\* of the Decimal context are not modelled)
RECURSIVE Gcd(_, _)
Gcd(a, b) == IF b = 0 THEN a ELSE Gcd(b, a % b)

Fraction(n, d) ==
    <<n \div Gcd(IF n < 0 THEN 0 - n ELSE n, d), d \div Gcd(IF n < 0 THEN 0 - n ELSE n, d)>>

FracAdd(a, b) == Fraction(a[1] * b[2] + b[1] * a[2], a[2] * b[2])
FracSub(a, b) == Fraction(a[1] * b[2] - b[1] * a[2], a[2] * b[2])
FracMul(a, b) == Fraction(a[1] * b[1], a[2] * b[2])

\* PredictionService.calculate_daily_rate
CalculateDailyRate(amount, days) ==
    IF days > 0 THEN Fraction(amount, days) ELSE <<0, 1>>

\* PredictionService.calculate_historical_rate: historical_avg divided by
\* days_in_period, which raises when days_in_period is 0
HistoricalRateError(days_in_period) ==
    IF days_in_period = 0 THEN "ArithmeticError" ELSE "ok"

CalculateHistoricalRate(historical_avg, days_in_period) ==
    Fraction(historical_avg[1], historical_avg[2] * days_in_period)

\* PredictionService.mix_daily_rates
MixDailyRatesEqualWeights(current_rate, historical_rate, days_passed, days_in_period) ==
    IF days_in_period > 0 /\ days_passed > 0
    THEN FracAdd(FracMul(<<1, 2>>, current_rate), FracMul(<<1, 2>>, historical_rate))
    ELSE historical_rate
MixDailyRates(current_rate, historical_rate, days_passed, days_in_period) ==
    IF days_in_period > 0 /\ days_passed > 0
    THEN FracAdd(FracMul(Fraction(days_passed, days_in_period), current_rate),
                 FracMul(FracSub(<<1, 1>>, Fraction(days_passed, days_in_period)),
                         historical_rate))
    ELSE historical_rate

\* predicted_total = current_spending + blended_daily_rate * days_remaining
PredictedTotalRemainingOnly(current_spending, blended_daily_rate, days_remaining) ==
    FracMul(blended_daily_rate, <<days_remaining, 1>>)
PredictedTotal(current_spending, blended_daily_rate, days_remaining) ==
    FracAdd(<<current_spending, 1>>, FracMul(blended_daily_rate, <<days_remaining, 1>>))

\* will_exceed: predicted_total > budget_limit, False for no limit (None or 0)
WillExceed(predicted_total, budget_limit) ==
    IF budget_limit = {} \/ budget_limit = {0} THEN FALSE
    ELSE predicted_total[1] > TheOne(budget_limit) * predicted_total[2]

\* the dictionary predict_category_monthly_spending returns
PredictionDict(category_name, today, period_data, historical_totals, historical_avg, current_daily_rate, blended_daily_rate, predicted_total) ==
    [op |-> "predict_category_monthly_spending", category |-> category_name,
     at |-> today, status |-> "ok",
     predicted_total      |-> predicted_total,
     current_spending     |-> period_data.current_spending,
     daily_rate_current   |-> current_daily_rate,
     daily_rate_predicted |-> blended_daily_rate,
     days_passed          |-> period_data.days_passed,
     days_remaining       |-> period_data.days_remaining,
     days_in_period       |-> period_data.days_in_period,
     confidence           |-> CalculateConfidence(period_data.days_passed,
                                                  Len(historical_totals)),
     historical_totals    |-> historical_totals,
     historical_prediction |-> historical_avg,
     historical_average   |-> IF Len(historical_totals) > 0
                              THEN historical_totals[Len(historical_totals)]
                              ELSE 0,
     method               |-> HistoricalMethod(historical_totals),
     budget_limit         |-> period_data.budget_limit,
     will_exceed          |-> WillExceed(predicted_total, period_data.budget_limit),
     period_start         |-> period_data.period_start,
     period_end           |-> period_data.period_end]

\* the blend and the predicted total, from the two daily rates
PredictionBlended(category_name, today, period_data, historical_totals, historical_avg, current_daily_rate, blended_daily_rate) ==
    PredictionDict(category_name, today, period_data, historical_totals, historical_avg,
                   current_daily_rate, blended_daily_rate,
                   PredictedTotal(period_data.current_spending, blended_daily_rate,
                                  period_data.days_remaining))

\* the two daily rates, from the period data and the smoothed history
PredictionRates(category_name, today, period_data, historical_totals, historical_avg) ==
    PredictionBlended(category_name, today, period_data, historical_totals, historical_avg,
                      CalculateDailyRate(period_data.current_spending,
                                         period_data.days_passed),
                      MixDailyRates(CalculateDailyRate(period_data.current_spending,
                                                       period_data.days_passed),
                                    CalculateHistoricalRate(historical_avg,
                                                            period_data.days_in_period),
                                    period_data.days_passed, period_data.days_in_period))

\* what predict_category_monthly_spending returns (or raises) for the period
\* data and the historical totals; fit is what the statsmodels calls do
PredictionRecord(category_name, today, period_data, historical_totals, fit) ==
    IF HistoricalRateError(period_data.days_in_period) # "ok"
    THEN [op |-> "predict_category_monthly_spending", category |-> category_name,
          at |-> today, status |-> HistoricalRateError(period_data.days_in_period)]
    ELSE PredictionRates(category_name, today, period_data, historical_totals,
                         PredictWithExponentialSmoothingValue(historical_totals, fit))

\* PredictionService.predict_category_monthly_spending
Prediction(category_name, year, month, lookback_months, today, fit) ==
    PredictionRecord(category_name, today,
                     PeriodData(category_name, year, month, today),
                     HistoricalMonthlySpending(category_name, year, month,
                                               lookback_months),
                     fit)

PredictCategoryMonthlySpending(category_name, year, month, lookback_months, fit) ==
    /\ result' = Prediction(category_name, year, month, lookback_months, now, fit)
    /\ UNCHANGED <<now, categories, budgets, transactions, accounts>>

DefaultLookbackMonths == 6

\* what the statsmodels calls of one forecast can do: raise, or answer a
\* forecast value
FitOutcomes == {[ok |-> FALSE], [ok |-> TRUE, value |-> <<3000, 1>>],
                [ok |-> TRUE, value |-> <<9, 2>>]}

\* the fit outcomes of the forecasts of one get_budget_predictions call, by
\* category name: the calls of one batch all raise or all answer the same
\* value
BatchFits ==
    {[n \in {c.name : c \in {x \in categories : x.type = "expense"}} |-> fit] :
        fit \in FitOutcomes}

\* PredictionService.get_budget_predictions: the entries of the returned
\* list (their order follows predicted_usage_pct and is not modelled).  A
\* category whose prediction raises, or whose budget_limit is None, has no
\* entry.
BudgetPredictions(year, month, today, fits) ==
    {e \in {Prediction(c.name, year, month, DefaultLookbackMonths, today, fits[c.name]) :
               c \in {x \in categories : x.type = "expense"}} :
        /\ e.status = "ok"
        /\ e.budget_limit # {}
        /\ TheOne(e.budget_limit) # 0}

GetBudgetPredictions(year, month, fits) ==
    /\ result' = [op |-> "get_budget_predictions", at |-> now, status |-> "ok",
                  year |-> year, month |-> month, fits |-> fits,
                  entries |-> BudgetPredictions(year, month, now, fits)]
    /\ UNCHANGED <<now, categories, budgets, transactions, accounts>>

\* the error one pass of the loop of get_budget_predictions raises, "ok"
\* when it completes; failing holds the ids of the categories for which the
\* database fails
PredictionError(category, failing, prediction) ==
    IF category.id \in failing THEN "DatabaseError"
    ELSE IF prediction.status # "ok" THEN prediction.status
    ELSE IF prediction.budget_limit = {0} THEN "ArithmeticError"
    ELSE "ok"

\* the errors that leave the loop of get_budget_predictions
BudgetPredictionsAborts(year, month, today, failing, fits) ==
    {e \in {PredictionError(c, failing,
                            Prediction(c.name, year, month, DefaultLookbackMonths, today,
                                       fits[c.name])) :
               c \in {x \in categories : x.type = "expense"}} :
        e # "ok" /\ ~ExceptException(e)}

\* what get_budget_predictions returns (or raises) when the database fails
\* for some categories
BudgetPredictionsResult(year, month, today, failing, fits, aborts) ==
    IF aborts # {}
    THEN [op |-> "get_budget_predictions", at |-> today, year |-> year, month |-> month,
          failing |-> failing, fits |-> fits, status |-> CHOOSE e \in aborts : TRUE]
    ELSE [op |-> "get_budget_predictions", at |-> today, year |-> year, month |-> month,
          failing |-> failing, fits |-> fits, status |-> "ok",
          entries |-> {e \in BudgetPredictions(year, month, today, fits) :
                          \A c \in categories : c.name = e.category => c.id \notin failing}]

GetBudgetPredictionsFailing(year, month, failing, fits) ==
    /\ result' = BudgetPredictionsResult(year, month, now, failing, fits,
                                         BudgetPredictionsAborts(year, month, now, failing,
                                                                 fits))
    /\ UNCHANGED <<now, categories, budgets, transactions, accounts>>

\* PredictionService.get_historical_monthly_spending, called on its own
GetHistoricalMonthlySpending(category_name, current_year, current_month, lookback_months) ==
    /\ result' = [op |-> "get_historical_monthly_spending", at |-> now, status |-> "ok",
                  category |-> category_name,
                  year |-> current_year, month |-> current_month,
                  lookback_months |-> lookback_months,
                  historical |-> HistoricalMonthlySpending(category_name, current_year,
                                                           current_month, lookback_months)]
    /\ UNCHANGED <<now, categories, budgets, transactions, accounts>>

\* PredictionService.calculate_confidence, called on its own
CalculateConfidenceCall(days_passed, historical_count) ==
    /\ result' = [op |-> "calculate_confidence", status |-> "ok",
                  days_passed |-> days_passed, historical_count |-> historical_count,
                  confidence |-> CalculateConfidence(days_passed, historical_count)]
    /\ UNCHANGED <<now, categories, budgets, transactions, accounts>>

PredictWithExponentialSmoothing(historical_values, fit) ==
    /\ result' = [op |-> "predict_with_exponential_smoothing", status |-> "ok",
                  historical_values |-> historical_values, fit |-> fit,
                  value |-> PredictWithExponentialSmoothingValue(historical_values, fit)]
    /\ UNCHANGED <<now, categories, budgets, transactions, accounts>>

\* PredictionService.calculate_daily_rate, called on its own
CalculateDailyRateCall(amount, days) ==
    /\ result' = [op |-> "calculate_daily_rate", status |-> "ok",
                  amount |-> amount, days |-> days,
                  rate |-> CalculateDailyRate(amount, days)]
    /\ UNCHANGED <<now, categories, budgets, transactions, accounts>>

\* PredictionService.calculate_historical_rate, called on its own: the
\* division by days_in_period raises when it is 0
CalculateHistoricalRateCall(historical_totals, days_in_period, fit) ==
    /\ result' =
          IF HistoricalRateError(days_in_period) # "ok"
          THEN [op |-> "calculate_historical_rate",
                status |-> HistoricalRateError(days_in_period),
                historical_totals |-> historical_totals,
                days_in_period |-> days_in_period]
          ELSE [op |-> "calculate_historical_rate", status |-> "ok",
                historical_totals |-> historical_totals,
                days_in_period |-> days_in_period,
                rate |-> CalculateHistoricalRate(
                             PredictWithExponentialSmoothingValue(historical_totals, fit),
                             days_in_period),
                method |-> HistoricalMethod(historical_totals)]
    /\ UNCHANGED <<now, categories, budgets, transactions, accounts>>

\* PredictionService.mix_daily_rates, called on its own
MixDailyRatesCall(current_rate, historical_rate, days_passed, days_in_period) ==
    /\ result' = [op |-> "mix_daily_rates", status |-> "ok",
                  current_rate |-> current_rate, historical_rate |-> historical_rate,
                  days_passed |-> days_passed, days_in_period |-> days_in_period,
                  rate |-> MixDailyRates(current_rate, historical_rate,
                                         days_passed, days_in_period)]
    /\ UNCHANGED <<now, categories, budgets, transactions, accounts>>

(***************************************************************************)
(* The application: an empty database with the default categories and two  *)
(* accounts; every service call is one step.  The clock moves forward      *)
(* between calls.                                                          *)
(***************************************************************************)
Instants == { Date(2023, 1, 31, 1), Date(2023, 2, 28, 1) }

\* a datetime given for a transaction: a day of the month before
EarlierDatetime == Date(2023, 1, 10, 0)

\* no call made yet
NoResult == [op |-> "none", status |-> "ok"]

Init ==
    /\ now = Date(2023, 1, 31, 1)
    /\ categories = DefaultCategories
    /\ budgets = {}
    /\ transactions = {}
    /\ accounts = [a \in AccountNames |-> 0]
    /\ result = NoResult

\* get_current_time answers a later instant
Tick ==
    /\ \E i \in Instants : Instant(i) > Instant(now) /\ now' = i
    /\ UNCHANGED <<categories, budgets, transactions, accounts, result>>

BudgetCalls ==
    \/ \E t \in {"expense", "income"} : GetCategoryBudget("Food", t)
    \/ \E c \in {"Food", "Salary"}, p \in {"weekly", "monthly"} :
          AddBudget(c, "expense", 5000, p, NoDatetime)
    \/ \E l \in {{}, {0}}, p \in {"", "yearly", "daily"} :
          EditBudget("Food", "expense", l, p, NoDatetime)
    \/ DeleteBudget("Food", "expense")
    \/ \E c \in {"Food", "Salary"} : GetBudgetStatus(c, "expense")
    \/ CheckBudgetWarning("Food", "expense", 3000)

TransactionCalls ==
    \/ \E t \in TransactionTypes, c \in {"Food", "Salary"},
          d \in {NoDatetime, EarlierDatetime} :
          AddTransaction(t, c, "Cash", 3000, d, "MYR", 100)
    \/ \E i \in 1..MaxTx, t \in {""} \cup TransactionTypes, c \in {"", "Salary"},
          d \in {NoDatetime, EarlierDatetime} :
          EditTransaction(i, t, c, "", {}, d)
    \/ \E i \in 1..MaxTx : DeleteTransaction(i)

PredictionCalls ==
    \/ \E l \in 0..MaxLookback, fit \in FitOutcomes :
          PredictCategoryMonthlySpending("Food", now.year, now.month, l, fit)
    \/ \E fits \in BatchFits : GetBudgetPredictions(now.year, now.month, fits)

Next == Tick \/ BudgetCalls \/ TransactionCalls \/ PredictionCalls

Spec == Init /\ [][Next]_vars

(***************************************************************************)
(* The budget service alone, called with every kind of argument: valid,    *)
(* of the wrong type, unknown, zero, omitted.                              *)
(***************************************************************************)
TypeInputs == {"expense", "income", "bogus"}
CategoryInputs == {"Food", "Salary"}
LaterStart == Date(2023, 2, 10, 0)

NextBudget ==
    \/ Tick
    \/ \E c \in CategoryInputs, t \in TypeInputs : GetCategoryBudget(c, t)
    \/ \E c \in CategoryInputs, t \in TypeInputs, l \in {0, 5000},
          p \in {"weekly", "monthly", "daily"}, d \in {NoDatetime, LaterStart} :
          AddBudget(c, t, l, p, d)
    \/ \E c \in CategoryInputs, t \in TypeInputs, l \in {{}, {0}, {8000}},
          p \in {"", "yearly", "daily"}, d \in {NoDatetime, LaterStart} :
          EditBudget(c, t, l, p, d)
    \/ \E c \in CategoryInputs, t \in TypeInputs : DeleteBudget(c, t)
    \/ \E c \in CategoryInputs, t \in TypeInputs : GetBudgetStatus(c, t)
    \/ \E c \in CategoryInputs, t \in TypeInputs : CheckBudgetWarning(c, t, 3000)

SpecBudget == Init /\ [][NextBudget]_vars

(***************************************************************************)
(* Budget status, warnings and the at-risk list: two budgeted categories,  *)
(* expenses of amounts chosen to land on and around 70, 80, 90 and 100     *)
(* percent of the limit.                                                   *)
(***************************************************************************)
StatusLimit == 1000
StatusCategories == {"Food", "Bills"}
UnknownCategory == "Rent"
FailingSets == {{}, {1}}

NextStatus ==
    \/ Tick
    \/ \E c \in StatusCategories :
          AddBudget(c, "expense", StatusLimit, "monthly", NoDatetime)
    \/ \E c \in StatusCategories, a \in {700, 899} :
          AddTransaction("expense", c, "Cash", a, NoDatetime, "MYR", 100)
    \/ \E c \in {"Food", UnknownCategory} : GetBudgetStatus(c, "expense")
    \/ \E c \in {"Food", UnknownCategory}, a \in {1, 2, 100, 101} :
          CheckBudgetWarning(c, "expense", a)
    \/ \E rows \in BudgetRows, failing \in FailingSets :
          GetAllBudgetStatuses(rows, failing)
    \/ \E rows \in BudgetRows, failing \in FailingSets, threshold \in {DefaultThreshold, <<70, 1>>} :
          GetBudgetsAtRisk(rows, failing, threshold)

SpecStatus == Init /\ [][NextStatus]_vars

(***************************************************************************)
(* The forecast: budgets with the start date now or later, expenses of the *)
(* current and of an earlier month, forecasts (the smoothing falling back  *)
(* to the mean) and histories asked for the months around now.             *)
(***************************************************************************)
ForecastMonths == {<<2023, 1>>, <<2023, 2>>, <<2023, 3>>}
DecemberDatetime == Date(2022, 12, 15, 0)

NextForecast ==
    \/ Tick
    \/ \E d \in {NoDatetime, LaterStart} :
          AddBudget("Food", "expense", 5000, "monthly", d)
    \/ AddBudget("Bills", "expense", 5000, "monthly", NoDatetime)
    \/ \E d \in {NoDatetime, DecemberDatetime} :
          AddTransaction("expense", "Food", "Cash", 3000, d, "MYR", 100)
    \/ \E ym \in ForecastMonths, l \in 0..MaxLookback :
          PredictCategoryMonthlySpending("Food", ym[1], ym[2], l, [ok |-> FALSE])
    \/ \E c \in StatusCategories, ym \in {<<2023, 1>>, <<2023, 2>>}, l \in 0..MaxLookback :
          GetHistoricalMonthlySpending(c, ym[1], ym[2], l)

SpecForecast == Init /\ [][NextForecast]_vars

(***************************************************************************)
(* The forecast's arithmetic: a budget of Food with the start date now or  *)
(* later, expenses dated now, in an earlier month and ahead of now (on     *)
(* 5 March), forecasts asked for the months around now with no history and *)
(* with the longest one.                                                   *)
(***************************************************************************)
NextBlend ==
    \/ Tick
    \/ \E d \in {NoDatetime, LaterStart} :
          AddBudget("Food", "expense", 5000, "monthly", d)
    \/ \E d \in {NoDatetime, DecemberDatetime, Date(2023, 3, 5, 0)} :
          AddTransaction("expense", "Food", "Cash", 3000, d, "MYR", 100)
    \/ \E ym \in ForecastMonths, l \in {0, MaxLookback}, fit \in FitOutcomes :
          PredictCategoryMonthlySpending("Food", ym[1], ym[2], l, fit)

SpecBlend == Init /\ [][NextBlend]_vars

(***************************************************************************)
(* The two batch operations, with the database failing for some of the     *)
(* categories.                                                             *)
(***************************************************************************)
NextBatch ==
    \/ Tick
    \/ \E c \in StatusCategories :
          AddBudget(c, "expense", 5000, "monthly", NoDatetime)
    \/ AddTransaction("expense", "Food", "Cash", 3000, NoDatetime, "MYR", 100)
    \/ \E rows \in BudgetRows, failing \in FailingSets :
          GetAllBudgetStatuses(rows, failing)
    \/ \E failing \in FailingSets, fits \in BatchFits :
          GetBudgetPredictionsFailing(now.year, now.month, failing, fits)

SpecBatch == Init /\ [][NextBatch]_vars

(***************************************************************************)
(* The forecast's pure functions, applied to every input of a bounded set. *)
(***************************************************************************)
MaxDaysPassed == 35
MaxHistoricalCount == 8
MaxSeriesLen == 3
SeriesValues == {0, 3000, 6000}
Series == UNION {[1..n -> SeriesValues] : n \in 0..MaxSeriesLen}

NextMath ==
    \/ \E d \in 0..MaxDaysPassed, h \in 0..MaxHistoricalCount :
          CalculateConfidenceCall(d, h)
    \/ \E values \in Series, fit \in FitOutcomes :
          PredictWithExponentialSmoothing(values, fit)
    \/ \E amount \in SeriesValues, days \in {0, 28, 31} :
          CalculateDailyRateCall(amount, days)
    \/ \E values \in Series, days \in {0, 28, 31}, fit \in FitOutcomes :
          CalculateHistoricalRateCall(values, days, fit)
    \/ \E c \in {<<0, 1>>, <<100, 1>>, <<750, 7>>}, h \in {<<0, 1>>, <<100, 1>>},
          d \in {0, 1, 28}, days \in {0, 28, 31} :
          MixDailyRatesCall(c, h, d, days)

SpecMath == Init /\ [][NextMath]_vars

(***************************************************************************)
(* The ledger: transactions added on the Cash account, edited (type,       *)
(* category, account, amount) and deleted, categories added, renamed and   *)
(* deleted.                                                                *)
(***************************************************************************)
UsdRate == 447

\* the edits tried: a new type with the category left blank, a new type
\* with its category, a move to the Bank account with a new amount
LedgerEdits ==
    { <<"income", "", "", {}>>, <<"income", "Salary", "", {}>>, <<"", "", "Bank", {700}>> }

NextLedger ==
    \/ AddTransaction("expense", "Food", "Cash", 3000, NoDatetime, "MYR", 100)
    \/ AddTransaction("expense", "Food", "Cash", 333, NoDatetime, "USD", UsdRate)
    \/ \E i \in 1..MaxTx, e \in LedgerEdits :
          EditTransaction(i, e[1], e[2], e[3], e[4], NoDatetime)
    \/ \E i \in 1..MaxTx : DeleteTransaction(i)
    \/ AddCategory("Rent", "expense")
    \/ \E new \in {"Salary", "Dining"} : EditCategory("Food", new, "expense")
    \/ \E c \in {"Food", "Rent"} : DeleteCategory(c, "expense")

SpecLedger == Init /\ [][NextLedger]_vars

(***************************************************************************)
(* The status query among the writes: weekly and monthly budgets of Food,  *)
(* expenses dated now and earlier, deletions, and the status asked for a   *)
(* budgeted category, an unbudgeted one and an unknown one.                *)
(***************************************************************************)
NextQuery ==
    \/ Tick
    \/ \E p \in {"weekly", "monthly"} :
          AddBudget("Food", "expense", 5000, p, NoDatetime)
    \/ \E d \in {NoDatetime, EarlierDatetime} :
          AddTransaction("expense", "Food", "Cash", 3000, d, "MYR", 100)
    \/ \E i \in 1..MaxTx : DeleteTransaction(i)
    \/ \E c \in {"Food", "Salary", UnknownCategory} : GetBudgetStatus(c, "expense")

SpecQuery == Init /\ [][NextQuery]_vars

(***************************************************************************)
(* The forecast with the default lookback, the clock advancing day by day  *)
(* over the turn of a month: a budget that starts on the second day of     *)
(* the next month, expenses in two of the past months or in none.          *)
(***************************************************************************)
ConfidenceDays == 4

\* get_current_time answers the same time on the next day
DayTick ==
    /\ ToOrdinal(now) < ToOrdinal(Date(2023, 1, 31, 0)) + ConfidenceDays
    /\ now' = FromInstant(Instant(now) + SlotsPerDay)
    /\ UNCHANGED <<categories, budgets, transactions, accounts, result>>

NextConfidence ==
    \/ DayTick
    \/ AddBudget("Food", "expense", 5000, "monthly", Date(2023, 2, 2, 0))
    \/ \E d \in {DecemberDatetime, EarlierDatetime} :
          AddTransaction("expense", "Food", "Cash", 3000, d, "MYR", 100)
    \/ \E ym \in ForecastMonths, fit \in FitOutcomes :
          PredictCategoryMonthlySpending("Food", ym[1], ym[2], DefaultLookbackMonths, fit)

SpecConfidence == Init /\ [][NextConfidence]_vars

(***************************************************************************)
(* The period resolver swept over time: one budget, the clock advancing    *)
(* slot by slot, the status of the budget read at every instant.           *)
(***************************************************************************)
PeriodStartDates ==
    { Date(2023, 1, d, t) : d \in {1, 15, 29, 30, 31}, t \in 0..(SlotsPerDay - 1) }
    \cup { Date(2024, 2, 29, t) : t \in 0..(SlotsPerDay - 1) }
    \cup { Date(2023, 6, 15, 1), Date(2023, 12, 31, 0) }

InitPeriod ==
    /\ categories = DefaultCategories
    /\ \E p \in Periods, s \in PeriodStartDates :
          /\ budgets = {[category_id |-> 1, limit_amount |-> 10000,
                         period |-> p, start_date |-> s]}
          /\ now = FromInstant(Instant(s) - LeadDays * SlotsPerDay)
    /\ transactions = {}
    /\ accounts = [a \in AccountNames |-> 0]
    /\ result = NoResult

SweepBudget == CHOOSE b \in budgets : TRUE

ResolvedNow == result.op = "get_budget_status" /\ result.at = now

SweepResolve ==
    /\ ~ResolvedNow
    /\ GetBudgetStatus("Food", "expense")

SweepTick ==
    /\ ResolvedNow
    /\ Instant(now) < Instant(SweepBudget.start_date) + HorizonDays * SlotsPerDay
    /\ now' = FromInstant(Instant(now) + 1)
    /\ UNCHANGED <<categories, budgets, transactions, accounts, result>>

NextPeriod == SweepResolve \/ SweepTick

SpecPeriod == InitPeriod /\ [][NextPeriod]_vars

(***************************************************************************)
(* Period resolver properties (checked under SpecPeriod)                   *)
(***************************************************************************)
StatusReturned == result.op = "get_budget_status" /\ result.status = "ok"

\* the call was made at or after the budget's start_date
Started(r) == Instant(r.at) >= Instant(r.budget.start_date)

\* period_start <= now < period_end for the instant of the call
ContainsNow(r) ==
    /\ Instant(r.period_start) <= Instant(r.at)
    /\ Instant(r.at) < Instant(r.period_end)

\* C1: for a YEARLY budget and every instant now >= start_date, the
\* returned period satisfies period_start <= now < period_end.
C1_YearlyPeriodContainsNow ==
    (StatusReturned /\ result.budget.period = "yearly" /\ Started(result))
        => ContainsNow(result)

\* C2: for a MONTHLY budget with any start day-of-month and every instant
\* now >= start_date, the returned period satisfies
\* period_start <= now < period_end.
C2_MonthlyPeriodContainsNow ==
    (StatusReturned /\ result.budget.period = "monthly" /\ Started(result))
        => ContainsNow(result)

FollowingMonth(a, b) ==
    \/ a.month = 12 /\ b.month = 1 /\ b.year = a.year + 1
    \/ a.month < 12 /\ b.month = a.month + 1 /\ b.year = a.year

\* C7: for a MONTHLY budget and any instant, no date construction fails,
\* period_start has day-of-month min(start day, days in its month M) and
\* period_end lies in the month following M with day-of-month
\* min(start day, days in that month).
C7_MonthlyDaysClamped ==
    (result.op = "get_budget_status" /\ SweepBudget.period = "monthly")
        => /\ result.status = "ok"
           /\ result.period_start.day =
                 Min(SweepBudget.start_date.day,
                     MonthRange(result.period_start.year, result.period_start.month))
           /\ FollowingMonth(result.period_start, result.period_end)
           /\ result.period_end.day =
                 Min(SweepBudget.start_date.day,
                     MonthRange(result.period_end.year, result.period_end.month))

\* start Jan 31 2023, now Feb 15 2023: the period is [Jan 31 2023, Feb 28 2023)
C7_Witness ==
    /\ StatusReturned
    /\ result.budget.period = "monthly"
    /\ result.budget.start_date = Date(2023, 1, 31, 1)
    /\ result.at = Date(2023, 2, 15, 0)
    /\ result.period_start = Date(2023, 1, 31, 1)
    /\ result.period_end = Date(2023, 2, 28, 1)

\* C8: for a YEARLY budget starting on Feb 29, the period starts in the
\* target year (the year of now) and ends in the year after, each on Feb 29
\* when that year is a leap year and on Feb 28 when it is not.
C8_YearlyLeapDay ==
    (result.op = "get_budget_status" /\ SweepBudget.period = "yearly"
       /\ SweepBudget.start_date.month = 2 /\ SweepBudget.start_date.day = 29)
        => /\ result.status = "ok"
           /\ result.period_start.month = 2
           /\ result.period_end.month = 2
           /\ result.period_start.day = (IF IsLeap(result.period_start.year) THEN 29 ELSE 28)
           /\ result.period_end.day = (IF IsLeap(result.period_end.year) THEN 29 ELSE 28)
           /\ result.period_end.year = result.period_start.year + 1
           /\ (Started(result) => result.period_start.year = result.at.year)

\* start 2024-02-29, now 2025-03-01: the period is [2025-02-28, 2026-02-28)
C8_Witness ==
    /\ StatusReturned
    /\ result.budget.period = "yearly"
    /\ result.budget.start_date = Date(2024, 2, 29, 1)
    /\ result.at = Date(2025, 3, 1, 0)
    /\ result.period_start = Date(2025, 2, 28, 1)
    /\ result.period_end = Date(2026, 2, 28, 1)

\* C9: as now advances from start_date onward, each newly returned
\* interval starts exactly at the end of the previously returned one.
C9_PeriodsTile ==
    [][ ( /\ StatusReturned
          /\ Started(result)
          /\ result'.op = "get_budget_status" /\ result'.status = "ok"
          /\ << result'.period_start, result'.period_end >>
                # << result.period_start, result.period_end >> )
        => /\ result'.period_start = result.period_end
           /\ Instant(result'.period_start) < Instant(result'.period_end)
      ]_vars

\* a later period than the first has been returned, for a month-end start
C9_Witness ==
    /\ StatusReturned
    /\ Started(result)
    /\ result.budget.period = "monthly"
    /\ result.budget.start_date.day = 31
    /\ result.period_start = Date(2023, 2, 28, 0)
    /\ result.period_end = Date(2023, 3, 31, 0)

\* C10: for a WEEKLY budget and now >= start_date, with
\* k = floor(whole days of (now - start_date) / 7): period_start is
\* start_date + 7k days, period_end is period_start + 7 days, and
\* period_start <= now < period_end.
C10_WeeklyPeriod ==
    (result.op = "get_budget_status" /\ SweepBudget.period = "weekly"
       /\ Instant(result.at) >= Instant(SweepBudget.start_date))
        => /\ result.status = "ok"
           /\ LET k == ((Instant(result.at) - Instant(result.budget.start_date))
                          \div SlotsPerDay) \div 7
              IN  /\ Instant(result.period_start) =
                        Instant(result.budget.start_date) + 7 * k * SlotsPerDay
                  /\ Instant(result.period_end) =
                        Instant(result.period_start) + 7 * SlotsPerDay
           /\ result.period_start.tod = result.budget.start_date.tod
           /\ ContainsNow(result)

\* a call in the third week, on the last slot before the week's end
C10_Witness ==
    /\ StatusReturned
    /\ result.budget.period = "weekly"
    /\ Instant(result.period_start) = Instant(result.budget.start_date) + 14 * SlotsPerDay
    /\ Instant(result.at) = Instant(result.period_end) - 1

\* start advanced by one period: 7 days, one calendar month with the day
\* clamped to the month's last day, one year with Feb 29 clamped to Feb 28
OnePeriodLater(period, start, end) ==
    /\ end.tod = start.tod
    /\ CASE period = "weekly" ->
               Instant(end) = Instant(start) + 7 * SlotsPerDay
         [] period = "monthly" ->
               /\ FollowingMonth(start, end)
               /\ end.day = Min(start.day, MonthRange(end.year, end.month))
         [] period = "yearly" ->
               /\ end.year = start.year + 1
               /\ end.month = start.month
               /\ end.day = (IF start.month = 2 /\ start.day = 29 /\ ~IsLeap(end.year)
                             THEN 28 ELSE start.day)

\* C11: when now is before the budget's start_date, the returned period is
\* the first one: period_start = start_date, period_end = start_date
\* advanced by one period, and period_end > period_start.
C11_FirstPeriodBeforeStart ==
    (result.op = "get_budget_status"
       /\ Instant(result.at) < Instant(SweepBudget.start_date))
        => /\ result.status = "ok"
           /\ result.period_start = SweepBudget.start_date
           /\ OnePeriodLater(SweepBudget.period, SweepBudget.start_date,
                             result.period_end)
           /\ Instant(result.period_end) > Instant(result.period_start)

\* a MONTHLY budget starting Jan 31 2023, read the day before: the first
\* period ends on Feb 28 2023
C11_Witness ==
    /\ StatusReturned
    /\ result.budget.period = "monthly"
    /\ result.budget.start_date = Date(2023, 1, 31, 1)
    /\ result.at = Date(2023, 1, 30, 1)
    /\ result.period_start = Date(2023, 1, 31, 1)
    /\ result.period_end = Date(2023, 2, 28, 1)

(***************************************************************************)
(* Budget status, warning and at-risk properties (SpecStatus, SpecBatch)   *)
(***************************************************************************)
\* the last call was op, made at the current instant: no write and no tick
\* has happened since, so the stored data is what the call read
JustAnswered(op) == result.op = op /\ result.at = now

\* the expense category of that name has a budget
HasBudget(name) ==
    \E c \in categories, b \in budgets :
        c.name = name /\ c.type = "expense" /\ b.category_id = c.id

\* C12: for a budget of limit L > 0 and current-period spending S,
\* check_budget_warning with candidate amount A reports
\* new_percentage = (S + A) / L * 100 and the level 'none' below 80,
\* 'caution' in [80, 90), 'warning' in [90, 100), 'exceeded' from 100 on.
C12_WarningLevels ==
    (JustAnswered("check_budget_warning") /\ result.status = "ok" /\ result.has_budget)
        => LET st == BudgetStatus(result.category, result.ttype, now)
               L  == st.limit
               SA == st.spent + result.additional_amount
           IN  /\ L > 0
               /\ result.new_percentage[1] * L = SA * 100 * result.new_percentage[2]
               /\ result.warning_level =
                     (IF SA * 100 < 80 * L THEN "none"
                      ELSE IF SA * 100 < 90 * L THEN "caution"
                      ELSE IF SA * 100 < 100 * L THEN "warning"
                      ELSE "exceeded")

\* limit 10.00, spent 8.99, candidate 0.02: 90.1 percent, 'warning'
C12_Witness ==
    /\ JustAnswered("check_budget_warning")
    /\ result.status = "ok"
    /\ result.has_budget
    /\ result.limit = 1000
    /\ result.current_spent = 899
    /\ result.additional_amount = 2
    /\ result.new_percentage[1] * 10 = 901 * result.new_percentage[2]
    /\ result.warning_level = "warning"

\* C13: check_budget_warning never raises for an expense category without
\* a budget or for an unknown category: it answers has_budget = False, level
\* 'none', percentages 0 and amounts 0; for a category with a budget it
\* answers has_budget = True.
C13_NoBudgetDefaults ==
    (JustAnswered("check_budget_warning") /\ result.ttype = "expense")
        => /\ result.status = "ok"
           /\ result.has_budget = HasBudget(result.category)
           /\ ~HasBudget(result.category)
                 => /\ result.warning_level = "none"
                    /\ result.current_percentage[1] = 0
                    /\ result.new_percentage[1] = 0
                    /\ result.limit = 0
                    /\ result.current_spent = 0
                    /\ result.new_spent = 0
                    /\ result.remaining_after = 0

\* the unknown category asked while Food has a budget with nothing spent
C13_Witness ==
    /\ JustAnswered("check_budget_warning")
    /\ result.category = UnknownCategory
    /\ result.status = "ok"
    /\ result.has_budget = FALSE
    /\ HasBudget("Food")
    /\ BudgetStatus("Food", "expense", now).spent = 0

\* the transactions of the status's category inside its period
RowsOfPeriod(r) ==
    {t \in transactions :
        /\ t.category_id = r.budget.category_id
        /\ Instant(r.period_start) <= Instant(t.datetime)
        /\ Instant(t.datetime) < Instant(r.period_end)}

\* C14: get_budget_status for a category with a budget returns spent = the
\* total of the category's amounts with period_start <= datetime <
\* period_end, remaining = limit - spent, percentage = spent / limit * 100
\* (0 when limit is 0) and is_exceeded = (spent > limit).
C14_StatusArithmetic ==
    (JustAnswered("get_budget_status") /\ result.ttype = "expense"
       /\ HasBudget(result.category))
        => /\ result.status = "ok"
           /\ result.budget \in budgets
           /\ result.limit = result.budget.limit_amount
           /\ result.spent = SumAmountInMyr(RowsOfPeriod(result))
           /\ result.remaining = result.limit - result.spent
           /\ IF result.limit = 0 THEN result.percentage[1] = 0
              ELSE result.percentage[1] * result.limit
                      = result.spent * 100 * result.percentage[2]
           /\ result.is_exceeded = (result.spent > result.limit)

\* limit 10.00 and 7.00 spent in the period, with another expense of the
\* category before the period: spent 7, remaining 3, 70.0 percent, not
\* exceeded
C14_Witness ==
    /\ JustAnswered("get_budget_status")
    /\ result.status = "ok"
    /\ result.limit = 1000
    /\ result.spent = 700
    /\ result.remaining = 300
    /\ result.percentage[1] = 70 * result.percentage[2]
    /\ result.is_exceeded = FALSE
    /\ \E t \in transactions :
          /\ t.category_id = result.budget.category_id
          /\ Instant(t.datetime) < Instant(result.period_start)

\* the elements of a sequence
Elements(seq) == {seq[i] : i \in 1..Len(seq)}

\* C15: get_budgets_at_risk(threshold) returns exactly the statuses of
\* get_all_budget_statuses whose percentage >= threshold, ordered by
\* percentage from highest to lowest.
C15_AtRiskFilteredAndSorted ==
    (JustAnswered("get_budgets_at_risk") /\ result.status = "ok")
        => /\ result.all_statuses = AllBudgetStatuses(result.rows, result.failing, now)
           /\ Elements(result.entries) =
                 {st \in Elements(result.all_statuses) :
                     st.percentage[1] >= result.threshold[1] * st.percentage[2]}
           /\ Len(result.entries) = Cardinality(Elements(result.entries))
           /\ \A i, j \in 1..Len(result.entries) :
                 i < j => result.entries[i].percentage[1] * result.entries[j].percentage[2]
                            >= result.entries[j].percentage[1] * result.entries[i].percentage[2]

\* two budgets at risk, listed by get_all_budget_statuses lowest first and
\* returned highest first
C15_Witness ==
    /\ JustAnswered("get_budgets_at_risk")
    /\ result.status = "ok"
    /\ Len(result.all_statuses) = 2
    /\ Len(result.entries) = 2
    /\ result.all_statuses[1].percentage[1] = 70 * result.all_statuses[1].percentage[2]
    /\ result.entries[1].percentage[1] * 10 = 899 * result.entries[1].percentage[2]
    /\ result.entries[2] = result.all_statuses[1]

\* the expense categories with a budget for which the database does not fail
SucceedingBudgeted(failing) ==
    {c \in categories : c.type = "expense" /\ c.id \notin failing /\ HasBudget(c.name)}

\* C16: in get_all_budget_statuses and get_budget_predictions an exception
\* raised while computing one category's entry does not abort the batch: the
\* operation returns normally, with the entry of every other category whose
\* computation succeeds.
C16_BatchSkipsFailures ==
    /\ JustAnswered("get_all_budget_statuses")
          => /\ result.status = "ok"
             /\ Elements(result.entries) =
                   {BudgetStatus(c.name, "expense", now) :
                       c \in SucceedingBudgeted(result.failing)}
             /\ Len(result.entries) = Cardinality(SucceedingBudgeted(result.failing))
    /\ JustAnswered("get_budget_predictions")
          => /\ result.status = "ok"
             /\ result.entries =
                   {Prediction(c.name, result.year, result.month,
                               DefaultLookbackMonths, now, result.fits[c.name]) :
                       c \in SucceedingBudgeted(result.failing)}

\* Food and Bills have budgets, the computation for Food raised, and
\* get_all_budget_statuses returned the status of Bills
C16_Witness ==
    /\ JustAnswered("get_all_budget_statuses")
    /\ result.status = "ok"
    /\ result.failing = {1}
    /\ HasBudget("Food")
    /\ Len(result.entries) = 1
    /\ result.entries[1].category = "Bills"

(***************************************************************************)
(* Forecast properties (checked under SpecForecast and SpecMath)           *)
(***************************************************************************)
\* the calendar month k months before (year, month)
MonthsBefore(year, month, k) ==
    <<(year * 12 + (month - 1) - k) \div 12, ((year * 12 + (month - 1) - k) % 12) + 1>>

\* the expense transactions of the named category dated in a calendar month
ExpensesOfMonth(category_name, ym) ==
    {t \in transactions :
        /\ t.transaction_type = "expense"
        /\ \E c \in categories : c.id = t.category_id /\ c.name = category_name
        /\ t.datetime.year = ym[1]
        /\ t.datetime.month = ym[2]}

\* C17: get_historical_monthly_spending(category, Y, M, L) returns exactly L
\* values; element i (0-based) is the category's expense total of the
\* calendar month L - i months before (Y, M), January stepping back to
\* December of the year before; (Y, M) itself is excluded and a month
\* without transactions contributes 0.
C17_HistoricalMonths ==
    JustAnswered("get_historical_monthly_spending")
        => /\ result.status = "ok"
           /\ Len(result.historical) = result.lookback_months
           /\ \A i \in 1..result.lookback_months :
                 result.historical[i] =
                    SumAmountInMyr(ExpensesOfMonth(
                        result.category,
                        MonthsBefore(result.year, result.month,
                                     result.lookback_months - (i - 1))))

\* asked for January 2023 with two months of lookback while Food has an
\* expense in December 2022 and one in January 2023: [0 (November), 30.00]
C17_Witness ==
    /\ JustAnswered("get_historical_monthly_spending")
    /\ result.category = "Food"
    /\ result.year = 2023 /\ result.month = 1
    /\ result.lookback_months = 2
    /\ result.historical = <<0, 3000>>
    /\ ExpensesOfMonth("Food", <<2023, 1>>) # {}

\* C18: in every forecast days_passed is 0 when now is before period_start,
\* days_in_period when now is at or after period_end, else the whole days
\* from period_start to now plus 1; so 0 <= days_passed <= days_in_period,
\* days_remaining >= 0 and days_passed + days_remaining = days_in_period, on
\* the budget-period path and on the calendar-month path.
C18_DaysPassed ==
    (JustAnswered("predict_category_monthly_spending") /\ result.status = "ok")
        => /\ result.days_passed =
                 (IF Instant(now) < Instant(result.period_start) THEN 0
                  ELSE IF Instant(now) >= Instant(result.period_end)
                       THEN result.days_in_period
                  ELSE ((Instant(now) - Instant(result.period_start)) \div SlotsPerDay) + 1)
           /\ 0 <= result.days_passed
           /\ result.days_passed <= result.days_in_period
           /\ result.days_remaining >= 0
           /\ result.days_passed + result.days_remaining = result.days_in_period

\* a budget period that began on Feb 10, forecast on Feb 28: 19 of 28 days
C18_Witness ==
    /\ JustAnswered("predict_category_monthly_spending")
    /\ result.status = "ok"
    /\ result.budget_limit # {}
    /\ result.period_start = Date(2023, 2, 10, 0)
    /\ now = Date(2023, 2, 28, 1)
    /\ result.days_passed = 19
    /\ result.days_in_period = 28
    /\ result.days_remaining = 9

\* C19: calculate_confidence(days_passed, historical_count) is 'high' when
\* (min(days_passed/7, 1) + min(historical_count/6, 1)) / 2 >= 0.7, 'medium'
\* when the score is >= 0.4 and < 0.7, 'low' otherwise.
C19_ConfidenceLevels ==
    result.op = "calculate_confidence"
        => LET d == IF result.days_passed > 7 THEN 7 ELSE result.days_passed
               h == IF result.historical_count > 6 THEN 6 ELSE result.historical_count
               \* the score is (d/7 + h/6) / 2 = (6d + 7h) / 84
           IN  /\ result.status = "ok"
               /\ result.confidence =
                     (IF 10 * (6 * d + 7 * h) >= 7 * 84 THEN "high"
                      ELSE IF 10 * (6 * d + 7 * h) >= 4 * 84 THEN "medium"
                      ELSE "low")

\* 3 days and 6 months of history: (3/7 + 1) / 2 = 0.71..., 'high'
C19_Witness ==
    /\ result.op = "calculate_confidence"
    /\ result.days_passed = 3
    /\ result.historical_count = 6
    /\ result.confidence = "high"

\* C20: predict_with_exponential_smoothing never raises: when the fit or
\* the forecast fails for a non-empty series it returns the arithmetic mean
\* of the series, and 0 for an empty series.
C20_SmoothingFallback ==
    result.op = "predict_with_exponential_smoothing"
        => /\ result.status = "ok"
           /\ result.historical_values = << >> => result.value[1] = 0
           /\ (~result.fit.ok /\ result.historical_values # << >>)
                 => result.value[1] * Len(result.historical_values)
                       = SumOfValues(result.historical_values) * result.value[2]

\* the fit failed on [0, 30.00, 60.00]: the mean 30.00 is returned
C20_Witness ==
    /\ result.op = "predict_with_exponential_smoothing"
    /\ result.status = "ok"
    /\ ~result.fit.ok
    /\ result.historical_values = <<0, 3000, 6000>>
    /\ result.value[1] = 3000 * result.value[2]

(***************************************************************************)
(* Forecast and budget status properties (checked under Spec)              *)
(***************************************************************************)
\* the step is a call that answered r (a repeated identical answer aside)
Answered(op) == result' # result /\ result'.op = op

\* C3: predict_category_monthly_spending reports 'Current Pace Only' for an
\* empty historical series, 'Simple Average' for a series of one value and
\* 'Exponential Smoothing' for two or more distinct values.
C3_PredictionMethod ==
    (result.op = "predict_category_monthly_spending" /\ result.status = "ok")
        => LET h == result.historical_totals
           IN  /\ Len(h) = 0 => result.method = "Current Pace Only"
               /\ Len(h) = 1 => result.method = "Simple Average"
               /\ (Len(h) >= 2 /\ \E i, j \in 1..Len(h) : h[i] # h[j])
                     => result.method = "Exponential Smoothing"

\* the expense categories that have a budget, of any period kind
BudgetedExpenseCategories ==
    {c.name : c \in {x \in categories :
                        x.type = "expense" /\ BudgetsOfCategory(x.id) # {}}}

\* C4: get_budget_predictions returns one entry for every expense category
\* that has a budget of any period kind and none for a category without.
C4_EveryBudgetedCategoryForecast ==
    [][ Answered("get_budget_predictions")
        => {e.category : e \in result'.entries} = BudgetedExpenseCategories
      ]_vars

\* the transactions the claim counts: of the budget's category, of type
\* EXPENSE, with period_start <= datetime < period_end
ExpenseRowsOfPeriod(r) ==
    {t \in transactions :
        /\ t.category_id = r.budget.category_id
        /\ t.transaction_type = "expense"
        /\ Instant(t.datetime) >= Instant(r.period_start)
        /\ Instant(t.datetime) < Instant(r.period_end)}

\* C5: the 'spent' value of get_budget_status is the sum of amount_in_myr
\* over exactly the category's EXPENSE transactions of the current period;
\* an INCOME transaction never contributes.
C5_SpentCountsExpenseOnly ==
    [][ (Answered("get_budget_status") /\ result'.status = "ok")
        => result'.spent = SumAmountInMyr(ExpenseRowsOfPeriod(result'))
      ]_vars

(***************************************************************************)
(* Budget operations and the transaction type (checked under SpecBudget)   *)
(***************************************************************************)
BudgetOperations ==
    {"get_category_budget", "add_budget", "edit_budget", "delete_budget",
     "get_budget_status", "check_budget_warning"}

\* the step is a budget operation called with transaction type income
IncomeBudgetCall ==
    /\ result' # result
    /\ result'.op \in BudgetOperations
    /\ result'.ttype = "income"

\* C6 as stated: every budget operation called with type income raises
\* InvalidInputError and creates, changes or deletes no budget.
C6_IncomeRejectedByEveryOperation ==
    [][ IncomeBudgetCall
        => /\ result'.status = "InvalidInputError"
           /\ budgets' = budgets
      ]_vars

\* C6 amended: get_category_budget, add_budget, edit_budget, delete_budget
\* and get_budget_status called with type income raise InvalidInputError;
\* check_budget_warning returns its no-budget answer instead; none of them
\* creates, changes or deletes a budget.
C6_IncomeRejectedOrNoBudget ==
    [][ IncomeBudgetCall
        => /\ budgets' = budgets
           /\ IF result'.op = "check_budget_warning"
              THEN /\ result'.status = "ok"
                   /\ result'.has_budget = FALSE
                   /\ result'.warning_level = "none"
              ELSE result'.status = "InvalidInputError"
      ]_vars

\* a budget is stored for Food, and check_budget_warning called for Food
\* with type income answered that there is no budget
C6_Witness ==
    /\ result.op = "check_budget_warning"
    /\ result.ttype = "income"
    /\ result.category = "Food"
    /\ result.status = "ok"
    /\ result.has_budget = FALSE
    /\ \E b \in budgets : b.category_id = 1

C24_StatusIdempotentAndPure ==
    /\ [](JustAnswered("get_budget_status")
            => result = BudgetStatus(result.category, result.ttype, now))
    /\ [][ (result'.op = "get_budget_status" /\ result'.at = now')
           => UNCHANGED <<categories, budgets, transactions, accounts>>
         ]_vars

\* the status of a weekly budget in a later week than its first, with an
\* expense in that week
C24_Witness ==
    /\ JustAnswered("get_budget_status")
    /\ result.status = "ok"
    /\ result.budget.period = "weekly"
    /\ result.period_start # result.budget.start_date
    /\ result.spent > 0

\* C28: when edit_budget raises InvalidInputError or NotFoundError, the
\* budget's limit_amount, period and start_date are what they were before
\* the call, whatever combination of new values was supplied.
C28_FailedEditChangesNothing ==
    [][ (result' # result /\ result'.op = "edit_budget"
           /\ result'.status \in {"InvalidInputError", "NotFoundError"})
        => budgets' = budgets
      ]_vars

(***************************************************************************)
(* Ledger properties (checked under SpecLedger)                            *)
(***************************************************************************)
\* the transactions currently attached to an account
TransactionsOf(account_name) == {x \in transactions : x.account = account_name}

RECURSIVE SumSigned(_)
SumSigned(ts) ==
    IF ts = {} THEN 0
    ELSE LET x == CHOOSE y \in ts : TRUE
         IN  (IF x.transaction_type = "income" THEN x.amount_in_myr
              ELSE 0 - x.amount_in_myr) + SumSigned(ts \ {x})

\* C25: after any sequence of successful add_transaction, edit_transaction
\* and delete_transaction calls each account's balance is its initial
\* balance (0) plus the amount_in_myr of the INCOME transactions attached to
\* it minus that of the EXPENSE transactions attached to it; so a delete
\* restores the balance from before the add, and an edit that moves a
\* transaction to another account takes it off the old account entirely.
C25_BalanceIsSumOfTransactions ==
    \A a \in AccountNames : accounts[a] = SumSigned(TransactionsOf(a))

\* an expense of 30.00 added on Cash was moved to Bank with the amount 7.00:
\* Cash is back at 0 and Bank at -7.00
C25_Witness ==
    /\ result.op = "edit_transaction"
    /\ result.status = "ok"
    /\ \E x \in transactions :
          /\ transactions = {x}
          /\ x.account = "Bank"
          /\ x.transaction_type = "expense"
          /\ x.amount_in_myr = 700
    /\ accounts["Cash"] = 0
    /\ accounts["Bank"] = 0 - 700

\* the categories a transaction's category_id refers to
CategoryOfTransaction(x) == {c \in categories : c.id = x.category_id}

\* C29: after any sequence of add_transaction and edit_transaction calls
\* every stored transaction's transaction_type is the type of the category
\* it references, also after an edit that gives a new type and leaves the
\* category name blank.
C29_TypeMatchesCategory ==
    \A x \in transactions : \A c \in CategoryOfTransaction(x) : c.type = x.transaction_type

\* C26: delete_category raises CategoryInUseError and deletes nothing
\* whenever a stored transaction references the category, so every stored
\* transaction always references an existing category.
C26_CategoryInUseProtected ==
    /\ [](\A x \in transactions : CategoryOfTransaction(x) # {})
    /\ [][ (result' # result /\ result'.op = "delete_category"
             /\ \E c \in CategoryByNameAndType(result'.category, result'.ttype) :
                   \E x \in transactions : x.category_id = c.id)
           => /\ result'.status = "CategoryInUseError"
              /\ UNCHANGED <<categories, budgets, transactions>>
         ]_vars

(***************************************************************************)
(* The forecast's arithmetic (checked under SpecBlend)                     *)
(***************************************************************************)
\* the historical daily rate of the answered forecast: the smoothed monthly
\* total over the days of the period
AnsweredHistoricalRate ==
    Fraction(result.historical_prediction[1],
             result.historical_prediction[2] * result.days_in_period)

\* w * current + (1 - w) * historical with w = days_passed / days_in_period,
\* over the common denominator
AnsweredWeightedRate ==
    Fraction(result.days_passed * result.daily_rate_current[1]
                 * AnsweredHistoricalRate[2]
             + (result.days_in_period - result.days_passed)
                 * AnsweredHistoricalRate[1] * result.daily_rate_current[2],
             result.days_in_period * result.daily_rate_current[2]
                 * AnsweredHistoricalRate[2])

\* C27: predicted_total = current_spending + blended_rate * days_remaining,
\* where blended_rate = w * current_daily_rate + (1 - w) * historical rate
\* with w = days_passed / days_in_period when both are positive and the
\* historical rate otherwise; so with days_passed = 0 the forecast uses the
\* historical rate alone, and with days_passed = days_in_period the
\* predicted total is the current spending.
C27_BlendedForecast ==
    (JustAnswered("predict_category_monthly_spending") /\ result.status = "ok")
    => /\ result.daily_rate_predicted =
              IF result.days_passed > 0 /\ result.days_in_period > 0
              THEN AnsweredWeightedRate
              ELSE AnsweredHistoricalRate
       /\ result.predicted_total =
              Fraction(result.current_spending * result.daily_rate_predicted[2]
                       + result.daily_rate_predicted[1] * result.days_remaining,
                       result.daily_rate_predicted[2])
       /\ result.days_passed = 0
              => result.predicted_total =
                     Fraction(result.current_spending * AnsweredHistoricalRate[2]
                              + AnsweredHistoricalRate[1] * result.days_remaining,
                              AnsweredHistoricalRate[2])
       /\ result.days_passed = result.days_in_period
              => result.predicted_total = <<result.current_spending, 1>>

\* a forecast in the middle of the period, with spending in the period and
\* a history that is not zero: both rates weigh in
C27_Witness ==
    /\ JustAnswered("predict_category_monthly_spending")
    /\ result.status = "ok"
    /\ 0 < result.days_passed /\ result.days_passed < result.days_in_period
    /\ result.days_remaining > 0
    /\ result.current_spending > 0
    /\ result.historical_prediction[1] > 0
    /\ result.daily_rate_predicted # result.daily_rate_current
    /\ result.daily_rate_predicted # AnsweredHistoricalRate

\* a forecast answered with no history asked for and no day of the period
\* passed
EmptyHistoryNoDayPassed ==
    /\ JustAnswered("predict_category_monthly_spending")
    /\ result.status = "ok"
    /\ Len(result.historical_totals) = 0
    /\ result.days_passed = 0

\* the EXPENSE transactions of the forecast's category dated inside the
\* forecast's period
ExpensesInsideForecastPeriod ==
    {t \in transactions :
        /\ \E c \in categories : c.id = t.category_id /\ c.name = result.category
        /\ t.transaction_type = "expense"
        /\ Instant(t.datetime) >= Instant(result.period_start)
        /\ Instant(t.datetime) < Instant(result.period_end)}

C30_DefaultLookbackConfidence ==
    (JustAnswered("predict_category_monthly_spending") /\ result.status = "ok")
    => /\ Len(result.historical_totals) = 6
       /\ result.confidence # "low"
       /\ result.confidence = "medium" <=> result.days_passed <= 2
       /\ result.confidence = "high" <=> result.days_passed >= 3

\* a forecast on the second day of the budget's period with no spending in
\* any of the six past months
C30_Witness ==
    /\ JustAnswered("predict_category_monthly_spending")
    /\ result.status = "ok"
    /\ result.budget_limit # {}
    /\ result.days_passed = 2
    /\ \A i \in 1..Len(result.historical_totals) : result.historical_totals[i] = 0
    /\ result.confidence = "medium"
====
